---- MODULE Spec2Model ----
(***************************************************************************)
(* Single-byte text encodings of pdf/internal/textencoding/simple.go:      *)
(* the predefined code -> rune tables, the construction of an encoder from *)
(* a table (with the registry of named constructors and the difference     *)
(* overlay), the accessors of an encoder, its serialisation, and the       *)
(* chunked decode (bytes -> UTF-8) and encode (UTF-8 -> bytes) transforms. *)
(*                                                                         *)
(* Bytes, runes and character codes are integers.  A Go map is a TLA+      *)
(* function whose DOMAIN is the key set.  Where Go leaves an order         *)
(* unspecified (map iteration), the model takes every outcome.             *)
(***************************************************************************)
EXTENDS Integers, Sequences, FiniteSets, TLC

(***************************************************************************)
(* The predefined tables (simple.go:263-1093).                             *)
(***************************************************************************)
\* simpleEncodings["MacExpertEncoding"]: the 165 (code, rune) entries of the table, in source order.
MacExpertEncodingPairs ==
  <<
     <<\h20, \h0020>>, <<\h21, \hf721>>, <<\h22, \hf6f8>>, <<\h23, \hf7a2>>,
     <<\h24, \hf724>>, <<\h25, \hf6e4>>, <<\h26, \hf726>>, <<\h27, \hf7b4>>,
     <<\h28, \h207d>>, <<\h29, \h207e>>, <<\h2a, \h2025>>, <<\h2b, \h2024>>,
     <<\h2c, \h002c>>, <<\h2d, \h002d>>, <<\h2e, \h002e>>, <<\h2f, \h2044>>,
     <<\h30, \hf730>>, <<\h31, \hf731>>, <<\h32, \hf732>>, <<\h33, \hf733>>,
     <<\h34, \hf734>>, <<\h35, \hf735>>, <<\h36, \hf736>>, <<\h37, \hf737>>,
     <<\h38, \hf738>>, <<\h39, \hf739>>, <<\h3a, \h003a>>, <<\h3b, \h003b>>,
     <<\h3d, \hf6de>>, <<\h3f, \hf73f>>, <<\h44, \hf7f0>>, <<\h47, \h00bc>>,
     <<\h48, \h00bd>>, <<\h49, \h00be>>, <<\h4a, \h215b>>, <<\h4b, \h215c>>,
     <<\h4c, \h215d>>, <<\h4d, \h215e>>, <<\h4e, \h2153>>, <<\h4f, \h2154>>,
     <<\h56, \hfb00>>, <<\h57, \hfb01>>, <<\h58, \hfb02>>, <<\h59, \hfb03>>,
     <<\h5a, \hfb04>>, <<\h5b, \h208d>>, <<\h5d, \h208e>>, <<\h5e, \hf6f6>>,
     <<\h5f, \hf6e5>>, <<\h60, \hf760>>, <<\h61, \hf761>>, <<\h62, \hf762>>,
     <<\h63, \hf763>>, <<\h64, \hf764>>, <<\h65, \hf765>>, <<\h66, \hf766>>,
     <<\h67, \hf767>>, <<\h68, \hf768>>, <<\h69, \hf769>>, <<\h6a, \hf76a>>,
     <<\h6b, \hf76b>>, <<\h6c, \hf76c>>, <<\h6d, \hf76d>>, <<\h6e, \hf76e>>,
     <<\h6f, \hf76f>>, <<\h70, \hf770>>, <<\h71, \hf771>>, <<\h72, \hf772>>,
     <<\h73, \hf773>>, <<\h74, \hf774>>, <<\h75, \hf775>>, <<\h76, \hf776>>,
     <<\h77, \hf777>>, <<\h78, \hf778>>, <<\h79, \hf779>>, <<\h7a, \hf77a>>,
     <<\h7b, \h20a1>>, <<\h7c, \hf6dc>>, <<\h7d, \hf6dd>>, <<\h7e, \hf6fe>>,
     <<\h81, \hf6e9>>, <<\h82, \hf6e0>>, <<\h87, \hf7e1>>, <<\h88, \hf7e0>>,
     <<\h89, \hf7e2>>, <<\h8a, \hf7e4>>, <<\h8b, \hf7e3>>, <<\h8c, \hf7e5>>,
     <<\h8d, \hf7e7>>, <<\h8e, \hf7e9>>, <<\h8f, \hf7e8>>, <<\h90, \hf7ea>>,
     <<\h91, \hf7eb>>, <<\h92, \hf7ed>>, <<\h93, \hf7ec>>, <<\h94, \hf7ee>>,
     <<\h95, \hf7ef>>, <<\h96, \hf7f1>>, <<\h97, \hf7f3>>, <<\h98, \hf7f2>>,
     <<\h99, \hf7f4>>, <<\h9a, \hf7f6>>, <<\h9b, \hf7f5>>, <<\h9c, \hf7fa>>,
     <<\h9d, \hf7f9>>, <<\h9e, \hf7fb>>, <<\h9f, \hf7fc>>, <<\ha1, \h2078>>,
     <<\ha2, \h2084>>, <<\ha3, \h2083>>, <<\ha4, \h2086>>, <<\ha5, \h2088>>,
     <<\ha6, \h2087>>, <<\ha7, \hf6fd>>, <<\ha9, \hf6df>>, <<\haa, \h2082>>,
     <<\hac, \hf7a8>>, <<\hae, \hf6f5>>, <<\haf, \hf6f0>>, <<\hb0, \h2085>>,
     <<\hb2, \hf6e1>>, <<\hb3, \hf6e7>>, <<\hb4, \hf7fd>>, <<\hb6, \hf6e3>>,
     <<\hb9, \hf7fe>>, <<\hbb, \h2089>>, <<\hbc, \h2080>>, <<\hbd, \hf6ff>>,
     <<\hbe, \hf7e6>>, <<\hbf, \hf7f8>>, <<\hc0, \hf7bf>>, <<\hc1, \h2081>>,
     <<\hc2, \hf6f9>>, <<\hc9, \hf7b8>>, <<\hcf, \hf6fa>>, <<\hd0, \h2012>>,
     <<\hd1, \hf6e6>>, <<\hd6, \hf7a1>>, <<\hd8, \hf7ff>>, <<\hda, \h00b9>>,
     <<\hdb, \h00b2>>, <<\hdc, \h00b3>>, <<\hdd, \h2074>>, <<\hde, \h2075>>,
     <<\hdf, \h2076>>, <<\he0, \h2077>>, <<\he1, \h2079>>, <<\he2, \h2070>>,
     <<\he4, \hf6ec>>, <<\he5, \hf6f1>>, <<\he6, \hf6f3>>, <<\he9, \hf6ed>>,
     <<\hea, \hf6f2>>, <<\heb, \hf6eb>>, <<\hf1, \hf6ee>>, <<\hf2, \hf6fb>>,
     <<\hf3, \hf6f4>>, <<\hf4, \hf7af>>, <<\hf5, \hf6ea>>, <<\hf6, \h207f>>,
     <<\hf7, \hf6ef>>, <<\hf8, \hf6e2>>, <<\hf9, \hf6e8>>, <<\hfa, \hf6f7>>,
     <<\hfb, \hf6fc>>
  >>

\* simpleEncodings["MacRomanEncoding"]: the 255 (code, rune) entries of the table, in source order.
MacRomanEncodingPairs ==
  <<
     <<\h01, \h0001>>, <<\h02, \h0002>>, <<\h03, \h0003>>, <<\h04, \h0004>>,
     <<\h05, \h0005>>, <<\h06, \h0006>>, <<\h07, \h0007>>, <<\h08, \h0008>>,
     <<\h09, \h0009>>, <<\h0a, \h000a>>, <<\h0b, \h000b>>, <<\h0c, \h000c>>,
     <<\h0d, \h000d>>, <<\h0e, \h000e>>, <<\h0f, \h000f>>, <<\h10, \h0010>>,
     <<\h11, \h0011>>, <<\h12, \h0012>>, <<\h13, \h0013>>, <<\h14, \h0014>>,
     <<\h15, \h0015>>, <<\h16, \h0016>>, <<\h17, \h0017>>, <<\h18, \h0018>>,
     <<\h19, \h0019>>, <<\h1a, \h001a>>, <<\h1b, \h001b>>, <<\h1c, \h001c>>,
     <<\h1d, \h001d>>, <<\h1e, \h001e>>, <<\h1f, \h001f>>, <<\h20, \h0020>>,
     <<\h21, \h0021>>, <<\h22, \h0022>>, <<\h23, \h0023>>, <<\h24, \h0024>>,
     <<\h25, \h0025>>, <<\h26, \h0026>>, <<\h27, \h0027>>, <<\h28, \h0028>>,
     <<\h29, \h0029>>, <<\h2a, \h002a>>, <<\h2b, \h002b>>, <<\h2c, \h002c>>,
     <<\h2d, \h002d>>, <<\h2e, \h002e>>, <<\h2f, \h002f>>, <<\h30, \h0030>>,
     <<\h31, \h0031>>, <<\h32, \h0032>>, <<\h33, \h0033>>, <<\h34, \h0034>>,
     <<\h35, \h0035>>, <<\h36, \h0036>>, <<\h37, \h0037>>, <<\h38, \h0038>>,
     <<\h39, \h0039>>, <<\h3a, \h003a>>, <<\h3b, \h003b>>, <<\h3c, \h003c>>,
     <<\h3d, \h003d>>, <<\h3e, \h003e>>, <<\h3f, \h003f>>, <<\h40, \h0040>>,
     <<\h41, \h0041>>, <<\h42, \h0042>>, <<\h43, \h0043>>, <<\h44, \h0044>>,
     <<\h45, \h0045>>, <<\h46, \h0046>>, <<\h47, \h0047>>, <<\h48, \h0048>>,
     <<\h49, \h0049>>, <<\h4a, \h004a>>, <<\h4b, \h004b>>, <<\h4c, \h004c>>,
     <<\h4d, \h004d>>, <<\h4e, \h004e>>, <<\h4f, \h004f>>, <<\h50, \h0050>>,
     <<\h51, \h0051>>, <<\h52, \h0052>>, <<\h53, \h0053>>, <<\h54, \h0054>>,
     <<\h55, \h0055>>, <<\h56, \h0056>>, <<\h57, \h0057>>, <<\h58, \h0058>>,
     <<\h59, \h0059>>, <<\h5a, \h005a>>, <<\h5b, \h005b>>, <<\h5c, \h005c>>,
     <<\h5d, \h005d>>, <<\h5e, \h005e>>, <<\h5f, \h005f>>, <<\h60, \h0060>>,
     <<\h61, \h0061>>, <<\h62, \h0062>>, <<\h63, \h0063>>, <<\h64, \h0064>>,
     <<\h65, \h0065>>, <<\h66, \h0066>>, <<\h67, \h0067>>, <<\h68, \h0068>>,
     <<\h69, \h0069>>, <<\h6a, \h006a>>, <<\h6b, \h006b>>, <<\h6c, \h006c>>,
     <<\h6d, \h006d>>, <<\h6e, \h006e>>, <<\h6f, \h006f>>, <<\h70, \h0070>>,
     <<\h71, \h0071>>, <<\h72, \h0072>>, <<\h73, \h0073>>, <<\h74, \h0074>>,
     <<\h75, \h0075>>, <<\h76, \h0076>>, <<\h77, \h0077>>, <<\h78, \h0078>>,
     <<\h79, \h0079>>, <<\h7a, \h007a>>, <<\h7b, \h007b>>, <<\h7c, \h007c>>,
     <<\h7d, \h007d>>, <<\h7e, \h007e>>, <<\h7f, \h007f>>, <<\h80, \h00c4>>,
     <<\h81, \h00c5>>, <<\h82, \h00c7>>, <<\h83, \h00c9>>, <<\h84, \h00d1>>,
     <<\h85, \h00d6>>, <<\h86, \h00dc>>, <<\h87, \h00e1>>, <<\h88, \h00e0>>,
     <<\h89, \h00e2>>, <<\h8a, \h00e4>>, <<\h8b, \h00e3>>, <<\h8c, \h00e5>>,
     <<\h8d, \h00e7>>, <<\h8e, \h00e9>>, <<\h8f, \h00e8>>, <<\h90, \h00ea>>,
     <<\h91, \h00eb>>, <<\h92, \h00ed>>, <<\h93, \h00ec>>, <<\h94, \h00ee>>,
     <<\h95, \h00ef>>, <<\h96, \h00f1>>, <<\h97, \h00f3>>, <<\h98, \h00f2>>,
     <<\h99, \h00f4>>, <<\h9a, \h00f6>>, <<\h9b, \h00f5>>, <<\h9c, \h00fa>>,
     <<\h9d, \h00f9>>, <<\h9e, \h00fb>>, <<\h9f, \h00fc>>, <<\ha0, \h2020>>,
     <<\ha1, \h00b0>>, <<\ha2, \h00a2>>, <<\ha3, \h00a3>>, <<\ha4, \h00a7>>,
     <<\ha5, \h2022>>, <<\ha6, \h00b6>>, <<\ha7, \h00df>>, <<\ha8, \h00ae>>,
     <<\ha9, \h00a9>>, <<\haa, \h2122>>, <<\hab, \h00b4>>, <<\hac, \h00a8>>,
     <<\had, \h2260>>, <<\hae, \h00c6>>, <<\haf, \h00d8>>, <<\hb0, \h221e>>,
     <<\hb1, \h00b1>>, <<\hb2, \h2264>>, <<\hb3, \h2265>>, <<\hb4, \h00a5>>,
     <<\hb5, \h00b5>>, <<\hb6, \h2202>>, <<\hb7, \h2211>>, <<\hb8, \h220f>>,
     <<\hb9, \h03c0>>, <<\hba, \h222b>>, <<\hbb, \h00aa>>, <<\hbc, \h00ba>>,
     <<\hbd, \h03a9>>, <<\hbe, \h00e6>>, <<\hbf, \h00f8>>, <<\hc0, \h00bf>>,
     <<\hc1, \h00a1>>, <<\hc2, \h00ac>>, <<\hc3, \h221a>>, <<\hc4, \h0192>>,
     <<\hc5, \h2248>>, <<\hc6, \h2206>>, <<\hc7, \h00ab>>, <<\hc8, \h00bb>>,
     <<\hc9, \h2026>>, <<\hca, \h00a0>>, <<\hcb, \h00c0>>, <<\hcc, \h00c3>>,
     <<\hcd, \h00d5>>, <<\hce, \h0152>>, <<\hcf, \h0153>>, <<\hd0, \h2013>>,
     <<\hd1, \h2014>>, <<\hd2, \h201c>>, <<\hd3, \h201d>>, <<\hd4, \h2018>>,
     <<\hd5, \h2019>>, <<\hd6, \h00f7>>, <<\hd7, \h25ca>>, <<\hd8, \h00ff>>,
     <<\hd9, \h0178>>, <<\hda, \h2044>>, <<\hdb, \h20ac>>, <<\hdc, \h2039>>,
     <<\hdd, \h203a>>, <<\hde, \hfb01>>, <<\hdf, \hfb02>>, <<\he0, \h2021>>,
     <<\he1, \h00b7>>, <<\he2, \h201a>>, <<\he3, \h201e>>, <<\he4, \h2030>>,
     <<\he5, \h00c2>>, <<\he6, \h00ca>>, <<\he7, \h00c1>>, <<\he8, \h00cb>>,
     <<\he9, \h00c8>>, <<\hea, \h00cd>>, <<\heb, \h00ce>>, <<\hec, \h00cf>>,
     <<\hed, \h00cc>>, <<\hee, \h00d3>>, <<\hef, \h00d4>>, <<\hf0, \hf8ff>>,
     <<\hf1, \h00d2>>, <<\hf2, \h00da>>, <<\hf3, \h00db>>, <<\hf4, \h00d9>>,
     <<\hf5, \h0131>>, <<\hf6, \h02c6>>, <<\hf7, \h02dc>>, <<\hf8, \h00af>>,
     <<\hf9, \h02d8>>, <<\hfa, \h02d9>>, <<\hfb, \h02da>>, <<\hfc, \h00b8>>,
     <<\hfd, \h02dd>>, <<\hfe, \h02db>>, <<\hff, \h02c7>>
  >>

\* simpleEncodings["PdfDocEncoding"]: the 252 (code, rune) entries of the table, in source order.
PdfDocEncodingPairs ==
  <<
     <<\h01, \h0001>>, <<\h02, \h0002>>, <<\h03, \h0003>>, <<\h04, \h0004>>,
     <<\h05, \h0005>>, <<\h06, \h0006>>, <<\h07, \h0007>>, <<\h08, \h0008>>,
     <<\h09, \h0009>>, <<\h0a, \h000a>>, <<\h0b, \h000b>>, <<\h0c, \h000c>>,
     <<\h0d, \h000d>>, <<\h0e, \h000e>>, <<\h0f, \h000f>>, <<\h10, \h0010>>,
     <<\h11, \h0011>>, <<\h12, \h0012>>, <<\h13, \h0013>>, <<\h14, \h0014>>,
     <<\h15, \h0015>>, <<\h16, \h0017>>, <<\h17, \h0017>>, <<\h18, \h02d8>>,
     <<\h19, \h02c7>>, <<\h1a, \h02c6>>, <<\h1b, \h02d9>>, <<\h1c, \h02dd>>,
     <<\h1d, \h02db>>, <<\h1e, \h02da>>, <<\h1f, \h02dc>>, <<\h20, \h0020>>,
     <<\h21, \h0021>>, <<\h22, \h0022>>, <<\h23, \h0023>>, <<\h24, \h0024>>,
     <<\h25, \h0025>>, <<\h26, \h0026>>, <<\h27, \h0027>>, <<\h28, \h0028>>,
     <<\h29, \h0029>>, <<\h2a, \h002a>>, <<\h2b, \h002b>>, <<\h2c, \h002c>>,
     <<\h2d, \h002d>>, <<\h2e, \h002e>>, <<\h2f, \h002f>>, <<\h30, \h0030>>,
     <<\h31, \h0031>>, <<\h32, \h0032>>, <<\h33, \h0033>>, <<\h34, \h0034>>,
     <<\h35, \h0035>>, <<\h36, \h0036>>, <<\h37, \h0037>>, <<\h38, \h0038>>,
     <<\h39, \h0039>>, <<\h3a, \h003a>>, <<\h3b, \h003b>>, <<\h3c, \h003c>>,
     <<\h3d, \h003d>>, <<\h3e, \h003e>>, <<\h3f, \h003f>>, <<\h40, \h0040>>,
     <<\h41, \h0041>>, <<\h42, \h0042>>, <<\h43, \h0043>>, <<\h44, \h0044>>,
     <<\h45, \h0045>>, <<\h46, \h0046>>, <<\h47, \h0047>>, <<\h48, \h0048>>,
     <<\h49, \h0049>>, <<\h4a, \h004a>>, <<\h4b, \h004b>>, <<\h4c, \h004c>>,
     <<\h4d, \h004d>>, <<\h4e, \h004e>>, <<\h4f, \h004f>>, <<\h50, \h0050>>,
     <<\h51, \h0051>>, <<\h52, \h0052>>, <<\h53, \h0053>>, <<\h54, \h0054>>,
     <<\h55, \h0055>>, <<\h56, \h0056>>, <<\h57, \h0057>>, <<\h58, \h0058>>,
     <<\h59, \h0059>>, <<\h5a, \h005a>>, <<\h5b, \h005b>>, <<\h5c, \h005c>>,
     <<\h5d, \h005d>>, <<\h5e, \h005e>>, <<\h5f, \h005f>>, <<\h60, \h0060>>,
     <<\h61, \h0061>>, <<\h62, \h0062>>, <<\h63, \h0063>>, <<\h64, \h0064>>,
     <<\h65, \h0065>>, <<\h66, \h0066>>, <<\h67, \h0067>>, <<\h68, \h0068>>,
     <<\h69, \h0069>>, <<\h6a, \h006a>>, <<\h6b, \h006b>>, <<\h6c, \h006c>>,
     <<\h6d, \h006d>>, <<\h6e, \h006e>>, <<\h6f, \h006f>>, <<\h70, \h0070>>,
     <<\h71, \h0071>>, <<\h72, \h0072>>, <<\h73, \h0073>>, <<\h74, \h0074>>,
     <<\h75, \h0075>>, <<\h76, \h0076>>, <<\h77, \h0077>>, <<\h78, \h0078>>,
     <<\h79, \h0079>>, <<\h7a, \h007a>>, <<\h7b, \h007b>>, <<\h7c, \h007c>>,
     <<\h7d, \h007d>>, <<\h7e, \h007e>>, <<\h80, \h2022>>, <<\h81, \h2020>>,
     <<\h82, \h2021>>, <<\h83, \h2026>>, <<\h84, \h2014>>, <<\h85, \h2013>>,
     <<\h86, \h0192>>, <<\h87, \h2044>>, <<\h88, \h2039>>, <<\h89, \h203a>>,
     <<\h8a, \h2212>>, <<\h8b, \h2030>>, <<\h8c, \h201e>>, <<\h8d, \h201c>>,
     <<\h8e, \h201d>>, <<\h8f, \h2018>>, <<\h90, \h2019>>, <<\h91, \h201a>>,
     <<\h92, \h2122>>, <<\h93, \hfb01>>, <<\h94, \hfb02>>, <<\h95, \h0141>>,
     <<\h96, \h0152>>, <<\h97, \h0160>>, <<\h98, \h0178>>, <<\h99, \h017d>>,
     <<\h9a, \h0131>>, <<\h9b, \h0142>>, <<\h9c, \h0153>>, <<\h9d, \h0161>>,
     <<\h9e, \h017e>>, <<\ha0, \h20ac>>, <<\ha1, \h00a1>>, <<\ha2, \h00a2>>,
     <<\ha3, \h00a3>>, <<\ha4, \h00a4>>, <<\ha5, \h00a5>>, <<\ha6, \h00a6>>,
     <<\ha7, \h00a7>>, <<\ha8, \h00a8>>, <<\ha9, \h00a9>>, <<\haa, \h00aa>>,
     <<\hab, \h00ab>>, <<\hac, \h00ac>>, <<\hae, \h00ae>>, <<\haf, \h00af>>,
     <<\hb0, \h00b0>>, <<\hb1, \h00b1>>, <<\hb2, \h00b2>>, <<\hb3, \h00b3>>,
     <<\hb4, \h00b4>>, <<\hb5, \h00b5>>, <<\hb6, \h00b6>>, <<\hb7, \h00b7>>,
     <<\hb8, \h00b8>>, <<\hb9, \h00b9>>, <<\hba, \h00ba>>, <<\hbb, \h00bb>>,
     <<\hbc, \h00bc>>, <<\hbd, \h00bd>>, <<\hbe, \h00be>>, <<\hbf, \h00bf>>,
     <<\hc0, \h00c0>>, <<\hc1, \h00c1>>, <<\hc2, \h00c2>>, <<\hc3, \h00c3>>,
     <<\hc4, \h00c4>>, <<\hc5, \h00c5>>, <<\hc6, \h00c6>>, <<\hc7, \h00c7>>,
     <<\hc8, \h00c8>>, <<\hc9, \h00c9>>, <<\hca, \h00ca>>, <<\hcb, \h00cb>>,
     <<\hcc, \h00cc>>, <<\hcd, \h00cd>>, <<\hce, \h00ce>>, <<\hcf, \h00cf>>,
     <<\hd0, \h00d0>>, <<\hd1, \h00d1>>, <<\hd2, \h00d2>>, <<\hd3, \h00d3>>,
     <<\hd4, \h00d4>>, <<\hd5, \h00d5>>, <<\hd6, \h00d6>>, <<\hd7, \h00d7>>,
     <<\hd8, \h00d8>>, <<\hd9, \h00d9>>, <<\hda, \h00da>>, <<\hdb, \h00db>>,
     <<\hdc, \h00dc>>, <<\hdd, \h00dd>>, <<\hde, \h00de>>, <<\hdf, \h00df>>,
     <<\he0, \h00e0>>, <<\he1, \h00e1>>, <<\he2, \h00e2>>, <<\he3, \h00e3>>,
     <<\he4, \h00e4>>, <<\he5, \h00e5>>, <<\he6, \h00e6>>, <<\he7, \h00e7>>,
     <<\he8, \h00e8>>, <<\he9, \h00e9>>, <<\hea, \h00ea>>, <<\heb, \h00eb>>,
     <<\hec, \h00ec>>, <<\hed, \h00ed>>, <<\hee, \h00ee>>, <<\hef, \h00ef>>,
     <<\hf0, \h00f0>>, <<\hf1, \h00f1>>, <<\hf2, \h00f2>>, <<\hf3, \h00f3>>,
     <<\hf4, \h00f4>>, <<\hf5, \h00f5>>, <<\hf6, \h00f6>>, <<\hf7, \h00f7>>,
     <<\hf8, \h00f8>>, <<\hf9, \h00f9>>, <<\hfa, \h00fa>>, <<\hfb, \h00fb>>,
     <<\hfc, \h00fc>>, <<\hfd, \h00fd>>, <<\hfe, \h00fe>>, <<\hff, \h00ff>>
  >>

\* simpleEncodings["StandardEncoding"]: the 149 (code, rune) entries of the table, in source order.
StandardEncodingPairs ==
  <<
     <<\h20, \h0020>>, <<\h21, \h0021>>, <<\h22, \h0022>>, <<\h23, \h0023>>,
     <<\h24, \h0024>>, <<\h25, \h0025>>, <<\h26, \h0026>>, <<\h27, \h2019>>,
     <<\h28, \h0028>>, <<\h29, \h0029>>, <<\h2a, \h002a>>, <<\h2b, \h002b>>,
     <<\h2c, \h002c>>, <<\h2d, \h002d>>, <<\h2e, \h002e>>, <<\h2f, \h002f>>,
     <<\h30, \h0030>>, <<\h31, \h0031>>, <<\h32, \h0032>>, <<\h33, \h0033>>,
     <<\h34, \h0034>>, <<\h35, \h0035>>, <<\h36, \h0036>>, <<\h37, \h0037>>,
     <<\h38, \h0038>>, <<\h39, \h0039>>, <<\h3a, \h003a>>, <<\h3b, \h003b>>,
     <<\h3c, \h003c>>, <<\h3d, \h003d>>, <<\h3e, \h003e>>, <<\h3f, \h003f>>,
     <<\h40, \h0040>>, <<\h41, \h0041>>, <<\h42, \h0042>>, <<\h43, \h0043>>,
     <<\h44, \h0044>>, <<\h45, \h0045>>, <<\h46, \h0046>>, <<\h47, \h0047>>,
     <<\h48, \h0048>>, <<\h49, \h0049>>, <<\h4a, \h004a>>, <<\h4b, \h004b>>,
     <<\h4c, \h004c>>, <<\h4d, \h004d>>, <<\h4e, \h004e>>, <<\h4f, \h004f>>,
     <<\h50, \h0050>>, <<\h51, \h0051>>, <<\h52, \h0052>>, <<\h53, \h0053>>,
     <<\h54, \h0054>>, <<\h55, \h0055>>, <<\h56, \h0056>>, <<\h57, \h0057>>,
     <<\h58, \h0058>>, <<\h59, \h0059>>, <<\h5a, \h005a>>, <<\h5b, \h005b>>,
     <<\h5c, \h005c>>, <<\h5d, \h005d>>, <<\h5e, \h005e>>, <<\h5f, \h005f>>,
     <<\h60, \h0060>>, <<\h61, \h0061>>, <<\h62, \h0062>>, <<\h63, \h0063>>,
     <<\h64, \h0064>>, <<\h65, \h0065>>, <<\h66, \h0066>>, <<\h67, \h0067>>,
     <<\h68, \h0068>>, <<\h69, \h0069>>, <<\h6a, \h006a>>, <<\h6b, \h006b>>,
     <<\h6c, \h006c>>, <<\h6d, \h006d>>, <<\h6e, \h006e>>, <<\h6f, \h006f>>,
     <<\h70, \h0070>>, <<\h71, \h0071>>, <<\h72, \h0072>>, <<\h73, \h0073>>,
     <<\h74, \h0074>>, <<\h75, \h0075>>, <<\h76, \h0076>>, <<\h77, \h0077>>,
     <<\h78, \h0078>>, <<\h79, \h0079>>, <<\h7a, \h007a>>, <<\h7b, \h007b>>,
     <<\h7c, \h007c>>, <<\h7d, \h007d>>, <<\h7e, \h007e>>, <<\ha1, \h00a1>>,
     <<\ha2, \h00a2>>, <<\ha3, \h00a3>>, <<\ha4, \h2044>>, <<\ha5, \h00a5>>,
     <<\ha6, \h0192>>, <<\ha7, \h00a7>>, <<\ha8, \h00a4>>, <<\ha9, \h0027>>,
     <<\haa, \h201c>>, <<\hab, \h00ab>>, <<\hac, \h2039>>, <<\had, \h203a>>,
     <<\hae, \hfb01>>, <<\haf, \hfb02>>, <<\hb1, \h2013>>, <<\hb2, \h2020>>,
     <<\hb3, \h2021>>, <<\hb4, \h00b7>>, <<\hb6, \h00b6>>, <<\hb7, \h2022>>,
     <<\hb8, \h201a>>, <<\hb9, \h201e>>, <<\hba, \h201d>>, <<\hbb, \h00bb>>,
     <<\hbc, \h2026>>, <<\hbd, \h2030>>, <<\hbf, \h00bf>>, <<\hc1, \h0060>>,
     <<\hc2, \h00b4>>, <<\hc3, \h02c6>>, <<\hc4, \h02dc>>, <<\hc5, \h00af>>,
     <<\hc6, \h02d8>>, <<\hc7, \h02d9>>, <<\hc8, \h00a8>>, <<\hca, \h02da>>,
     <<\hcb, \h00b8>>, <<\hcc, \h02dd>>, <<\hcd, \h02db>>, <<\hce, \h02c7>>,
     <<\hcf, \h2014>>, <<\he0, \h00c6>>, <<\he2, \h00aa>>, <<\he7, \h0141>>,
     <<\he8, \h00d8>>, <<\he9, \h0152>>, <<\hea, \h00ba>>, <<\hf0, \h00e6>>,
     <<\hf5, \h0131>>, <<\hf7, \h0142>>, <<\hf8, \h00f8>>, <<\hf9, \h0153>>,
     <<\hfa, \h00df>>
  >>
\* A Go map literal as a function: keys are unique in a map literal.
MapOfPairs(pairs) ==
  [c \in {pairs[i][1] : i \in DOMAIN pairs} |->
      pairs[CHOOSE i \in DOMAIN pairs : pairs[i][1] = c][2]]

\* var simpleEncodings: name -> table.
simpleEncodings ==
  [n \in {"MacExpertEncoding", "MacRomanEncoding", "PdfDocEncoding", "StandardEncoding"} |->
     CASE n = "MacExpertEncoding" -> MapOfPairs(MacExpertEncodingPairs)
       [] n = "MacRomanEncoding"  -> MapOfPairs(MacRomanEncodingPairs)
       [] n = "PdfDocEncoding"    -> MapOfPairs(PdfDocEncodingPairs)
       [] n = "StandardEncoding"  -> MapOfPairs(StandardEncodingPairs)]

(***************************************************************************)
(* Values of the package and of the libraries the code calls.              *)
(***************************************************************************)
\* MissingCodeRune: the replacement rune of the package (declared beside
\* simple.go); U+FFFD.
MissingCodeRune == 65533

\* utf8.RuneError, compared against at simple.go:165.
RuneError == 65533

\* The error values a Transform call returns.
Nil == "nil"
ErrShortDst == "transform: short destination buffer"
ErrShortSrc == "transform: short source buffer"
\* A run-time panic of the Go program (index out of range, explicit panic).
Panic == "panic"

\* utf8.RuneLen: the number of bytes of the UTF-8 encoding of r, -1 if r is
\* not a valid value to encode.
utf8RuneLen(r) ==
  IF r < 0 THEN -1
  ELSE IF r <= 127 THEN 1
  ELSE IF r <= 2047 THEN 2
  ELSE IF 55296 <= r /\ r <= 57343 THEN -1
  ELSE IF r <= 65535 THEN 3
  ELSE IF r <= 1114111 THEN 4
  ELSE -1

\* utf8.EncodeRune: the bytes written for r; an invalid r is written as
\* RuneError.
utf8EncodeRune(r) ==
  IF 0 <= r /\ r <= 127 THEN <<r>>
  ELSE IF 0 <= r /\ r <= 2047 THEN <<192 + (r \div 64), 128 + (r % 64)>>
  ELSE IF r < 0 \/ r > 1114111 \/ (55296 <= r /\ r <= 57343)
       THEN <<239, 191, 189>>
  ELSE IF r <= 65535
       THEN <<224 + (r \div 4096), 128 + ((r \div 64) % 64), 128 + (r % 64)>>
  ELSE <<240 + (r \div 262144), 128 + ((r \div 4096) % 64),
         128 + ((r \div 64) % 64), 128 + (r % 64)>>

\* The table utf8.first: the length a leading byte announces (1 for ASCII and
\* for a byte that cannot lead).
utf8Size(b) ==
  IF b <= 127 THEN 1
  ELSE IF b <= 193 THEN 1
  ELSE IF b <= 223 THEN 2
  ELSE IF b <= 239 THEN 3
  ELSE IF b <= 244 THEN 4
  ELSE 1

\* Whether the byte can lead a sequence at all (ASCII or a leading byte).
utf8Leads(b) == b <= 127 \/ (194 <= b /\ b <= 244)

\* utf8.acceptRanges: the range the second byte must lie in, by leading byte.
utf8AcceptLo(b) == IF b = 224 THEN 160 ELSE IF b = 240 THEN 144 ELSE 128

utf8AcceptHi(b) == IF b = 237 THEN 159 ELSE IF b = 244 THEN 143 ELSE 191

\* A continuation byte, 10xxxxxx.
utf8Cont(b) == 128 <= b /\ b <= 191

\* utf8.DecodeRune: the first rune of p and its width in bytes; (RuneError, 0)
\* for empty p, (RuneError, 1) for an invalid or incomplete encoding.
utf8DecodeRune(p) ==
  IF Len(p) < 1 THEN [r |-> RuneError, n |-> 0]
  ELSE LET p0 == p[1]
           sz == utf8Size(p0)
       IN IF p0 <= 127 THEN [r |-> p0, n |-> 1]
          ELSE IF ~utf8Leads(p0) THEN [r |-> RuneError, n |-> 1]
          ELSE IF Len(p) < sz THEN [r |-> RuneError, n |-> 1]
          ELSE IF p[2] < utf8AcceptLo(p0) \/ utf8AcceptHi(p0) < p[2]
               THEN [r |-> RuneError, n |-> 1]
          ELSE IF sz <= 2
               THEN [r |-> (p0 % 32) * 64 + (p[2] % 64), n |-> 2]
          ELSE IF ~utf8Cont(p[3]) THEN [r |-> RuneError, n |-> 1]
          ELSE IF sz <= 3
               THEN [r |-> (p0 % 16) * 4096 + (p[2] % 64) * 64 + (p[3] % 64),
                     n |-> 3]
          ELSE IF ~utf8Cont(p[4]) THEN [r |-> RuneError, n |-> 1]
          ELSE [r |-> (p0 % 8) * 262144 + (p[2] % 64) * 4096
                        + (p[3] % 64) * 64 + (p[4] % 64),
                n |-> 4]

\* utf8.FullRune: whether p begins with a full encoding of a rune; an
\* invalid encoding counts as a full rune (it converts to RuneError, width 1).
utf8FullRune(p) ==
  IF Len(p) = 0 THEN FALSE
  ELSE LET p0 == p[1] IN
       IF Len(p) >= utf8Size(p0) THEN TRUE
       ELSE IF Len(p) > 1 /\ (p[2] < utf8AcceptLo(p0) \/ utf8AcceptHi(p0) < p[2])
            THEN TRUE
       ELSE IF Len(p) > 2 /\ ~utf8Cont(p[3]) THEN TRUE
       ELSE FALSE

(***************************************************************************)
(* The transforms (simple.go:118-184).  dst is modelled by its length      *)
(* dstLen; out is what the call writes at the start of dst.                *)
(***************************************************************************)
RECURSIVE simpleDecoderLoopCountsFirst(_, _, _, _, _, _)
\* simpleDecoderLoop with nSrc++ moved before the room check: a byte whose
\* rune does not fit is reported as consumed.
simpleDecoderLoopCountsFirst(m, dstLen, src, nDst, nSrc, out) ==
  IF Len(src) = 0
  THEN [nDst |-> nDst, nSrc |-> nSrc, err |-> Nil, out |-> out]
  ELSE LET b == Head(src)
           r == IF b \in DOMAIN m THEN m[b] ELSE MissingCodeRune
           w == utf8EncodeRune(r)
       IN IF utf8RuneLen(r) > dstLen
          THEN [nDst |-> nDst, nSrc |-> nSrc + 1, err |-> ErrShortDst, out |-> out]
          ELSE simpleDecoderLoopCountsFirst(m, dstLen - Len(w), Tail(src),
                                            nDst + Len(w), nSrc + 1, out \o w)

RECURSIVE simpleDecoderLoopOffByOne(_, _, _, _, _, _)
\* simpleDecoderLoop with the room check written >=: a rune that fills the
\* destination exactly is refused.
simpleDecoderLoopOffByOne(m, dstLen, src, nDst, nSrc, out) ==
  IF Len(src) = 0
  THEN [nDst |-> nDst, nSrc |-> nSrc, err |-> Nil, out |-> out]
  ELSE LET b == Head(src)
           r == IF b \in DOMAIN m THEN m[b] ELSE MissingCodeRune
           w == utf8EncodeRune(r)
       IN IF utf8RuneLen(r) >= dstLen
          THEN [nDst |-> nDst, nSrc |-> nSrc, err |-> ErrShortDst, out |-> out]
          ELSE simpleDecoderLoopOffByOne(m, dstLen - Len(w), Tail(src),
                                         nDst + Len(w), nSrc + 1, out \o w)

RECURSIVE simpleDecoderLoopZeroRune(_, _, _, _, _, _)
\* simpleDecoderLoop without the "if !ok" branch: an unmapped byte keeps the
\* zero rune the map lookup returns.
simpleDecoderLoopZeroRune(m, dstLen, src, nDst, nSrc, out) ==
  IF Len(src) = 0
  THEN [nDst |-> nDst, nSrc |-> nSrc, err |-> Nil, out |-> out]
  ELSE LET b == Head(src)
           r == IF b \in DOMAIN m THEN m[b] ELSE 0
           w == utf8EncodeRune(r)
       IN IF utf8RuneLen(r) > dstLen
          THEN [nDst |-> nDst, nSrc |-> nSrc, err |-> ErrShortDst, out |-> out]
          ELSE simpleDecoderLoopZeroRune(m, dstLen - Len(w), Tail(src),
                                         nDst + Len(w), nSrc + 1, out \o w)

RECURSIVE simpleDecoderLoop(_, _, _, _, _, _)
\* The loop of simpleDecoder.Transform (simple.go:124-141): m is enc.m,
\* dstLen and src what is left of dst and src, nDst, nSrc and out the counts
\* and the bytes written so far.
simpleDecoderLoop(m, dstLen, src, nDst, nSrc, out) ==
  IF Len(src) = 0
  THEN [nDst |-> nDst, nSrc |-> nSrc, err |-> Nil, out |-> out]
  ELSE LET b == Head(src)
           r == IF b \in DOMAIN m THEN m[b] ELSE MissingCodeRune
       IN IF utf8RuneLen(r) > dstLen
          THEN [nDst |-> nDst, nSrc |-> nSrc, err |-> ErrShortDst, out |-> out]
          ELSE LET w == utf8EncodeRune(r) IN
               IF Len(w) > dstLen
               THEN [nDst |-> nDst, nSrc |-> nSrc, err |-> Panic, out |-> out]
               ELSE simpleDecoderLoop(m, dstLen - Len(w), Tail(src),
                                      nDst + Len(w), nSrc + 1, out \o w)

\* simpleDecoder.Transform(dst, src, atEOF) (simple.go:123-142).
simpleDecoderTransform(m, dstLen, src, atEOF) ==
  simpleDecoderLoop(m, dstLen, src, 0, 0, <<>>)

RECURSIVE simpleEncoderLoopIgnoresEOF(_, _, _, _, _, _, _)
\* simpleEncoderLoop with the short-source check written without atEOF: an
\* incomplete sequence at the end of the input is never converted.
simpleEncoderLoopIgnoresEOF(m, dstLen, src, atEOF, nDst, nSrc, out) ==
  IF Len(src) = 0
  THEN [nDst |-> nDst, nSrc |-> nSrc, err |-> Nil, out |-> out]
  ELSE IF ~utf8FullRune(src)
  THEN [nDst |-> nDst, nSrc |-> nSrc, err |-> ErrShortSrc, out |-> out]
  ELSE IF dstLen = 0
  THEN [nDst |-> nDst, nSrc |-> nSrc, err |-> ErrShortDst, out |-> out]
  ELSE LET d == utf8DecodeRune(src)
           r == IF d.r = RuneError THEN MissingCodeRune ELSE d.r
           b == IF r \in DOMAIN m THEN m[r]
                ELSE IF MissingCodeRune \in DOMAIN m THEN m[MissingCodeRune]
                ELSE 0
       IN simpleEncoderLoopIgnoresEOF(m, dstLen - 1, SubSeq(src, d.n + 1, Len(src)), atEOF,
            nDst + 1, nSrc + d.n, Append(out, b))

RECURSIVE simpleEncoderLoopConsumesFirst(_, _, _, _, _, _, _)
\* simpleEncoderLoop with the rune decoded and counted before the capacity
\* check: on a full destination nSrc includes a rune that was not written.
simpleEncoderLoopConsumesFirst(m, dstLen, src, atEOF, nDst, nSrc, out) ==
  IF Len(src) = 0
  THEN [nDst |-> nDst, nSrc |-> nSrc, err |-> Nil, out |-> out]
  ELSE IF ~utf8FullRune(src) /\ ~atEOF
  THEN [nDst |-> nDst, nSrc |-> nSrc, err |-> ErrShortSrc, out |-> out]
  ELSE IF dstLen = 0
  THEN [nDst |-> nDst, nSrc |-> nSrc + utf8DecodeRune(src).n, err |-> ErrShortDst, out |-> out]
  ELSE LET d == utf8DecodeRune(src)
           r == IF d.r = RuneError THEN MissingCodeRune ELSE d.r
           b == IF r \in DOMAIN m THEN m[r]
                ELSE IF MissingCodeRune \in DOMAIN m THEN m[MissingCodeRune]
                ELSE 0
       IN simpleEncoderLoopConsumesFirst(m, dstLen - 1, SubSeq(src, d.n + 1, Len(src)), atEOF,
            nDst + 1, nSrc + d.n, Append(out, b))

RECURSIVE simpleEncoderLoopNoFallback(_, _, _, _, _, _, _)
\* simpleEncoderLoop without the second lookup: a rune with no code gets the
\* zero byte even when MissingCodeRune has a code.
simpleEncoderLoopNoFallback(m, dstLen, src, atEOF, nDst, nSrc, out) ==
  IF Len(src) = 0
  THEN [nDst |-> nDst, nSrc |-> nSrc, err |-> Nil, out |-> out]
  ELSE IF ~utf8FullRune(src) /\ ~atEOF
  THEN [nDst |-> nDst, nSrc |-> nSrc, err |-> ErrShortSrc, out |-> out]
  ELSE IF dstLen = 0
  THEN [nDst |-> nDst, nSrc |-> nSrc, err |-> ErrShortDst, out |-> out]
  ELSE LET d == utf8DecodeRune(src)
           r == IF d.r = RuneError THEN MissingCodeRune ELSE d.r
           b == IF r \in DOMAIN m THEN m[r]
                ELSE 0
       IN simpleEncoderLoopNoFallback(m, dstLen - 1, SubSeq(src, d.n + 1, Len(src)), atEOF,
            nDst + 1, nSrc + d.n, Append(out, b))

RECURSIVE simpleEncoderLoop(_, _, _, _, _, _, _)
\* The loop of simpleEncoder.Transform (simple.go:158-179): m is enc.m.
simpleEncoderLoop(m, dstLen, src, atEOF, nDst, nSrc, out) ==
  IF Len(src) = 0
  THEN [nDst |-> nDst, nSrc |-> nSrc, err |-> Nil, out |-> out]
  ELSE IF ~utf8FullRune(src) /\ ~atEOF
  THEN [nDst |-> nDst, nSrc |-> nSrc, err |-> ErrShortSrc, out |-> out]
  ELSE IF dstLen = 0
  THEN [nDst |-> nDst, nSrc |-> nSrc, err |-> ErrShortDst, out |-> out]
  ELSE LET d == utf8DecodeRune(src)
           r == IF d.r = RuneError THEN MissingCodeRune ELSE d.r
           b == IF r \in DOMAIN m THEN m[r]
                ELSE IF MissingCodeRune \in DOMAIN m THEN m[MissingCodeRune]
                ELSE 0
       IN simpleEncoderLoop(m, dstLen - 1, SubSeq(src, d.n + 1, Len(src)), atEOF,
                            nDst + 1, nSrc + d.n, Append(out, b))

\* simpleEncoder.Transform(dst, src, atEOF) (simple.go:157-181).
simpleEncoderTransform(m, dstLen, src, atEOF) ==
  simpleEncoderLoop(m, dstLen, src, atEOF, 0, 0, <<>>)

(***************************************************************************)
(* Bounds and input sets of the model.                                     *)
(***************************************************************************)
\* Encoders constructed in one behaviour.
MaxEncoders == 1

\* Encoders constructed in a behaviour that uses several side by side.
MaxPairEncoders == 2

\* Length of a source buffer handed to the transforms.
MaxSrcLen == 3

\* The destination sizes handed to a Transform call: none, too small for a
\* two-byte rune, and room for one to two runes of two or three bytes.
DstSizes == {0, 1, 2, 3, 4, 5}

\* Largest character code passed to an accessor (CharCode is wider than a byte).
MaxCharCode == 300

\* Glyph names of the glyph list known to the model.
GlyphList ==
  ("A" :> 65) @@ ("Adieresis" :> 196) @@ ("quoteright" :> 8217)
    @@ ("grave" :> 96) @@ (".notdef" :> MissingCodeRune)

\* GlyphToRune(glyph): the rune of a glyph name and whether the name is known.
GlyphToRune(glyph) ==
  IF glyph \in DOMAIN GlyphList
  THEN [r |-> GlyphList[glyph], ok |-> TRUE]
  ELSE [r |-> 0, ok |-> FALSE]

\* The empty Go map (also a nil map: len 0, every lookup misses).
EmptyMap == [c \in {} |-> 0]

\* The difference maps callers pass: none, and one that makes code 0x41
\* share the rune of code 0x80 of MacRomanEncoding, names an unknown glyph
\* for code 0x27 and makes code 0x01 .notdef.
DiffChoices ==
  { EmptyMap,
    (65 :> "Adieresis") @@ (39 :> "nosuchglyph") @@ (1 :> ".notdef") }

\* The custom tables callers pass (map[CharCode]GlyphName): empty, one with an
\* unknown glyph and two codes equal modulo 256, one with a repeated rune.
CustomTables ==
  { EmptyMap,
    (65 :> "A") @@ (321 :> "Adieresis") @@ (66 :> "nosuchglyph"),
    (128 :> "Adieresis") @@ (129 :> "Adieresis") @@ (63 :> ".notdef") }

\* The base names callers ask for.
BaseNames ==
  DOMAIN simpleEncodings \cup {"WinAnsiEncoding", "Bogus"}

\* The constructors the embedding program registers, by identity, with the
\* encoder each one builds: a name and a table.
Constructors ==
  [ NewWinAnsi  |-> [baseName |-> "WinAnsiEncoding",
                     table |-> (65 :> 65) @@ (128 :> 8364)],
    NewStandard |-> [baseName |-> "StandardEncoding",
                     table |-> (39 :> 39) @@ (65 :> 65)] ]

\* The names constructors are registered under.
RegisteredNames == {"WinAnsiEncoding", "StandardEncoding"}

(***************************************************************************)
(* Program state.                                                          *)
(***************************************************************************)
VARIABLES
  simple,  \* var simple (simple.go:83-85): name -> registered constructor
  heap,    \* the map[byte]rune objects allocated or written so far, by reference
  encs,    \* the *simpleEncoding objects constructed so far
  made,    \* for each of them, the construction call that returned it
  last,    \* the most recent registration or construction call and its result
  got,     \* the most recent accessor call and its result
  tr       \* a chunked Transform session: buffers, progress, the last call

vars == <<simple, heap, encs, made, last, got, tr>>

\* A reference to a map[byte]rune: the map held by simpleEncodings[name], or
\* the i-th map made by make or by a map literal after initialisation.
TableRef(name) == <<"simpleEncodings", name>>

HeapRef(i) == <<"heap", i>>

\* The heap before anything is allocated or written.
NoMaps == <<>>

\* The map a reference denotes.  The heap holds the maps allocated after
\* initialisation and the tables that were written since; a table nothing
\* has written is as its literal gives it.
MapAt(hp, ref) ==
  IF ref \in DOMAIN hp THEN hp[ref] ELSE simpleEncodings[ref[2]]

\* The reference make(map[byte]rune) returns next.
newMap(hp) == HeapRef(Cardinality({a \in DOMAIN hp : a[1] = "heap"}) + 1)

\* The heap once the map at ref is m.
store(hp, ref, m) == (ref :> m) @@ hp

(***************************************************************************)
(* Construction (simple.go:26-93).                                         *)
(***************************************************************************)
RECURSIVE rangeAscending(_, _, _)
\* The loop "for b, r := range se.decode { se.encode[r] = b }" taken in
\* ascending key order over the bytes lo..hi: a later write replaces an
\* earlier one.
rangeAscending(decode, lo, hi) ==
  IF lo = hi
  THEN IF lo \in DOMAIN decode THEN (decode[lo] :> lo) ELSE EmptyMap
  ELSE LET mid == (lo + hi) \div 2 IN
       rangeAscending(decode, mid + 1, hi) @@ rangeAscending(decode, lo, mid)

RECURSIVE lastWriters(_, _)
\* For each rune of runes, every byte that can be the last one written under
\* it: Go visits the keys of a map in an unspecified order.
lastWriters(decode, runes) ==
  IF runes = {} THEN {EmptyMap}
  ELSE LET r == CHOOSE x \in runes : TRUE IN
       { (r :> b) @@ f : b \in {c \in DOMAIN decode : decode[c] = r},
                         f \in lastWriters(decode, runes \ {r}) }

\* invertDecode with key and value exchanged in the assignment: the map is
\* keyed by the code.
invertDecodeSwapped(decode) ==
  { [b \in DOMAIN decode |-> decode[b] % 256] }

\* The maps the loop at simple.go:77-79 can leave in se.encode.
invertDecode(decode) ==
  LET asc  == rangeAscending(decode, 0, 255)
      dups == {decode[b] : b \in {c \in DOMAIN decode : asc[decode[c]] # c}}
  IN { f @@ asc : f \in lastWriters(decode, dups) }

\* newSimpleEncoderFromMap(name, encoding) (simple.go:71-81): the encoders it
\* can return.  decode is the map passed in, not a copy.
newSimpleEncoderFromMap(name, encoding, hp) ==
  { [baseName |-> name, decode |-> encoding, encode |-> e] :
      e \in invertDecode(MapAt(hp, encoding)) }

\* ApplyDifferences(base, differences): a new encoder whose decode map is the
\* base's with every code of differences whose glyph is known replaced, and
\* whose encode map is the inversion of that; the base is left as it is.
ApplyDifferences(base, differences, hp) ==
  LET old  == MapAt(hp, base.decode)
      res  == {c \in DOMAIN differences : GlyphToRune(differences[c]).ok}
      dec  == [c \in DOMAIN old \cup res |->
                 IF c \in res THEN GlyphToRune(differences[c]).r ELSE old[c]]
      ref  == newMap(hp)
  IN { [enc  |-> [baseName |-> base.baseName, decode |-> ref, encode |-> e],
        heap |-> store(hp, ref, dec)] : e \in invertDecode(dec) }

\* What a construction returns when it fails: no encoder.
NoEncoder == [baseName |-> "nil"]

\* withDifferences with the differences written into the encoder's own
\* decode map instead of into a new encoder: the map the encoder was built
\* on is changed in place.
withDifferencesInPlace(enc, differences, hp) ==
  IF Cardinality(DOMAIN differences) # 0
  THEN LET old == MapAt(hp, enc.decode)
           res == {c \in DOMAIN differences : GlyphToRune(differences[c]).ok}
           dec == [c \in DOMAIN old \cup res |->
                     IF c \in res THEN GlyphToRune(differences[c]).r ELSE old[c]]
       IN { [enc |-> [enc EXCEPT !.encode = e],
             heap |-> store(hp, enc.decode, dec), err |-> Nil] :
              e \in invertDecode(dec) }
  ELSE { [enc |-> enc, heap |-> hp, err |-> Nil] }

\* The tail of both constructors (simple.go:44-47, 65-68): differences are
\* applied when there are any.
withDifferences(enc, differences, hp) ==
  IF Cardinality(DOMAIN differences) # 0
  THEN { [enc |-> o.enc, heap |-> o.heap, err |-> Nil] :
           o \in ApplyDifferences(enc, differences, hp) }
  ELSE { [enc |-> enc, heap |-> hp, err |-> Nil] }

\* customBaseEncodings with a code above 0xff stored under 0xff instead of
\* under its low byte.
customBaseEncodingsClamped(encoding) ==
  LET known == {c \in DOMAIN encoding : GlyphToRune(encoding[c]).ok}
      clamp(c) == IF c > 255 THEN 255 ELSE c
      bytes == {clamp(c) : c \in known}
      runes == {GlyphToRune(encoding[c]).r : c \in known}
  IN { f \in [bytes -> runes] :
         \A b \in bytes : \E c \in known :
            clamp(c) = b /\ f[b] = GlyphToRune(encoding[c]).r }

\* The maps the loop at simple.go:34-41 can leave in baseEncoding: codes are
\* narrowed to a byte, unknown glyphs skipped, and of two codes with the same
\* byte the one visited last stays.
customBaseEncodings(encoding) ==
  LET known == {c \in DOMAIN encoding : GlyphToRune(encoding[c]).ok}
      bytes == {c % 256 : c \in known}
      runes == {GlyphToRune(encoding[c]).r : c \in known}
  IN { f \in [bytes -> runes] :
         \A b \in bytes : \E c \in known :
            c % 256 = b /\ f[b] = GlyphToRune(encoding[c]).r }

\* NewCustomSimpleTextEncoder(encoding, differences) (simple.go:28-48): the
\* results it can return, each with the heap it leaves.
NewCustomSimpleTextEncoder(encoding, differences, hp) ==
  IF Cardinality(DOMAIN encoding) = 0
  THEN { [enc |-> NoEncoder, heap |-> hp, err |-> "empty custom encoding"] }
  ELSE UNION { UNION { withDifferences(e, differences, store(hp, newMap(hp), be)) :
                         e \in newSimpleEncoderFromMap("custom", newMap(hp),
                                                       store(hp, newMap(hp), be)) } :
                 be \in customBaseEncodings(encoding) }

\* fnc(): a registered constructor builds its encoder from its own table.
callConstructor(fnc, hp) ==
  LET c == Constructors[fnc] IN
  { [enc |-> e, heap |-> store(hp, newMap(hp), c.table)] :
      e \in newSimpleEncoderFromMap(c.baseName, newMap(hp),
                                    store(hp, newMap(hp), c.table)) }

\* NewSimpleTextEncoder with the two lookups exchanged: a predefined table
\* is preferred to a registered constructor.
NewSimpleTextEncoderTableFirst(baseName, differences, reg, hp) ==
  IF baseName \in DOMAIN simpleEncodings
  THEN UNION { withDifferences(e, differences, hp) :
                 e \in newSimpleEncoderFromMap(baseName, TableRef(baseName), hp) }
  ELSE IF baseName \notin DOMAIN reg
  THEN { [enc |-> NoEncoder, heap |-> hp, err |-> "unsupported font encoding"] }
  ELSE UNION { withDifferences(o.enc, differences, o.heap) :
                 o \in callConstructor(reg[baseName], hp) }

\* NewSimpleTextEncoder(baseName, differences) (simple.go:52-69) with the
\* registry reg: the results it can return.
NewSimpleTextEncoder(baseName, differences, reg, hp) ==
  IF baseName \in DOMAIN reg
  THEN UNION { withDifferences(o.enc, differences, o.heap) :
                 o \in callConstructor(reg[baseName], hp) }
  ELSE IF baseName \notin DOMAIN simpleEncodings
  THEN { [enc |-> NoEncoder, heap |-> hp, err |-> "unsupported font encoding"] }
  ELSE UNION { withDifferences(e, differences, hp) :
                 e \in newSimpleEncoderFromMap(baseName, TableRef(baseName), hp) }

(***************************************************************************)
(* Accessors (simple.go:186-219).                                          *)
(***************************************************************************)
\* enc.BaseName() (simple.go:192-194).
BaseName(enc) == enc.baseName

\* enc.RuneToCharcode(r) (simple.go:207-210).
RuneToCharcode(enc, r) ==
  IF r \in DOMAIN enc.encode
  THEN [code |-> enc.encode[r], ok |-> TRUE]
  ELSE [code |-> 0, ok |-> FALSE]

\* enc.CharcodeToRune(code) (simple.go:212-219).
CharcodeToRune(enc, code, hp) ==
  IF code > 255 THEN [r |-> MissingCodeRune, ok |-> FALSE]
  ELSE LET b == code % 256
           decode == MapAt(hp, enc.decode)
       IN IF b \in DOMAIN decode
          THEN [r |-> decode[b], ok |-> TRUE]
          ELSE [r |-> 0, ok |-> FALSE]

RECURSIVE keysAscending(_, _, _)
\* The keys of a map[byte]rune among the bytes lo..hi, in ascending order.
keysAscending(decode, lo, hi) ==
  IF lo = hi
  THEN IF lo \in DOMAIN decode THEN <<lo>> ELSE <<>>
  ELSE LET mid == (lo + hi) \div 2 IN
       keysAscending(decode, lo, mid) \o keysAscending(decode, mid + 1, hi)

\* Orders in which "for b := range enc.decode" can visit the keys: Go starts
\* at an unspecified key; the model takes the ascending order started at the
\* first, the middle and the last key.
rangeOrders(decode) ==
  LET asc == keysAscending(decode, 0, 255)
      n   == Len(asc)
  IN { SubSeq(asc, k + 1, n) \o SubSeq(asc, 1, k) :
         k \in {0, n \div 2, n - 1} \cap (0 .. n) }

\* The less function handed to sort.Slice (simple.go:201-203).
codesLess(a, b) == a < b

\* Charcodes without the sort.Slice call: the codes in the order the map
\* was visited.
CharcodesUnsorted(enc, hp) == rangeOrders(MapAt(hp, enc.decode))

\* enc.Charcodes() (simple.go:196-205): the slices it can return.
Charcodes(enc, hp) ==
  { SortSeq(codes, codesLess) : codes \in rangeOrders(MapAt(hp, enc.decode)) }

\* transform.grow: the size of the buffer that replaces a destination of
\* size n that is full.
grow(n) == IF n <= 32 THEN 64 ELSE IF n <= 256 THEN 2 * n ELSE n + (n \div 2)

RECURSIVE doAppend(_, _, _, _, _)
\* transform.Bytes as called by Encoder.Bytes: Transform is called with
\* atEOF = true on what is left of src, into what is left of a destination
\* of dstLen bytes that grows when a call writes nothing.
doAppend(m, dstLen, src, pSrc, data) ==
  LET res == simpleEncoderTransform(m, dstLen - Len(data),
                                    SubSeq(src, pSrc + 1, Len(src)), TRUE)
  IN IF res.err # ErrShortDst
     THEN data \o res.out
     ELSE doAppend(m, IF res.nDst = 0 THEN grow(dstLen) ELSE dstLen, src,
                   pSrc + res.nSrc, data \o res.out)

\* enc.Encode(raw) (simple.go:108-111): the bytes of raw, given as its UTF-8
\* bytes; the destination starts as long as raw.
Encode(enc, raw) == doAppend(enc.encode, Len(raw), raw, 0, <<>>)

(***************************************************************************)
(* Serialisation (simple.go:249-260).                                      *)
(***************************************************************************)
\* The name under which the WinAnsi encoder is registered.
baseWinAnsi == "WinAnsiEncoding"

\* The objects of the document model that ToPdfObject builds.
MakeName(s) == [kind |-> "name", value |-> s]

MakeInteger(n) == [kind |-> "integer", value |-> n]

MakeArray(elems) == [kind |-> "array", elems |-> elems]

MakeIndirectObject(obj) == [kind |-> "indirect", obj |-> obj]

\* A dictionary with no entry, and dict.Set(key, obj).
MakeDict == [kind |-> "dict", entries |-> <<>>]

dictSet(dict, key, obj) == [dict EXCEPT !.entries = (key :> obj) @@ @]

RECURSIVE differenceItems(_, _, _)
\* The items of a Differences array for the codes of differences from code
\* up: a code number where a run of consecutive codes starts, then the glyph
\* names of the run.
differenceItems(differences, code, prev) ==
  IF \A c \in DOMAIN differences : c < code THEN <<>>
  ELSE IF code \notin DOMAIN differences
       THEN differenceItems(differences, code + 1, prev)
  ELSE (IF code = prev + 1 THEN <<>> ELSE <<MakeInteger(code)>>)
         \o <<MakeName(differences[code])>>
         \o differenceItems(differences, code + 1, code)

\* toFontDifferences(differences): the Differences array of a difference
\* map; the nil map gives the array with no item.
toFontDifferences(differences) ==
  MakeArray(differenceItems(differences, 0, -2))

\* ToPdfObject with the switch on the base name left out: every encoder is
\* written as a dictionary.
ToPdfObjectAlwaysDict(enc) ==
  MakeIndirectObject(
    dictSet(dictSet(dictSet(MakeDict, "Type", MakeName("Encoding")),
                    "BaseEncoding", MakeName(enc.baseName)),
            "Differences", toFontDifferences(EmptyMap)))

\* enc.ToPdfObject() (simple.go:249-260).
ToPdfObject(enc) ==
  IF enc.baseName \in {"MacRomanEncoding", "MacExpertEncoding", baseWinAnsi}
  THEN MakeName(enc.baseName)
  ELSE MakeIndirectObject(
         dictSet(dictSet(dictSet(MakeDict, "Type", MakeName("Encoding")),
                         "BaseEncoding", MakeName(enc.baseName)),
                 "Differences", toFontDifferences(EmptyMap)))

(***************************************************************************)
(* Operations on the program state.                                        *)
(***************************************************************************)
\* No call has been made yet.
NoCall == [op |-> "none"]

\* No Transform session is open.
NoSession == [kind |-> "idle"]

Init ==
  /\ simple = EmptyMap
  /\ heap = NoMaps
  /\ encs = <<>>
  /\ made = <<>>
  /\ last = NoCall
  /\ got = NoCall
  /\ tr = NoSession

\* RegisterSimpleEncoding without the test at simple.go:89: a second
\* registration of a name replaces the first.
RegisterSimpleEncodingOverwrites(name, fnc) ==
  /\ encs = <<>>
  /\ simple' = (name :> fnc) @@ simple
  /\ last' = [op |-> "RegisterSimpleEncoding", name |-> name,
              fnc |-> fnc, err |-> Nil]
  /\ UNCHANGED <<heap, encs, made, got, tr>>

\* RegisterSimpleEncoding(name, fnc) (simple.go:88-93).  Constructors are
\* registered while the program initialises, before any encoder is built.
RegisterSimpleEncoding(name, fnc) ==
  /\ encs = <<>>
  /\ IF name \in DOMAIN simple
     THEN /\ simple' = simple
          /\ last' = [op |-> "RegisterSimpleEncoding", name |-> name,
                      fnc |-> fnc, err |-> Panic]
     ELSE /\ simple' = (name :> fnc) @@ simple
          /\ last' = [op |-> "RegisterSimpleEncoding", name |-> name,
                      fnc |-> fnc, err |-> Nil]
  /\ UNCHANGED <<heap, encs, made, got, tr>>

\* The record of a construction call that returned o when n encoders existed.
constructed(op, arg, differences, o, n) ==
  [op |-> op, arg |-> arg, differences |-> differences,
   enc |-> IF o.err = Nil THEN n + 1 ELSE 0, err |-> o.err]

\* A call of NewSimpleTextEncoder(baseName, differences).
NewSimpleTextEncoderCall(baseName, differences) ==
  /\ \E o \in NewSimpleTextEncoder(baseName, differences, simple, heap) :
        /\ heap' = o.heap
        /\ encs' = IF o.err = Nil THEN Append(encs, o.enc) ELSE encs
        /\ last' = constructed("NewSimpleTextEncoder", baseName, differences, o,
                               Len(encs))
        /\ made' = IF o.err = Nil THEN Append(made, last') ELSE made
  /\ UNCHANGED <<simple, got, tr>>

\* A call of NewCustomSimpleTextEncoder(encoding, differences).
NewCustomSimpleTextEncoderCall(encoding, differences) ==
  /\ \E o \in NewCustomSimpleTextEncoder(encoding, differences, heap) :
        /\ heap' = o.heap
        /\ encs' = IF o.err = Nil THEN Append(encs, o.enc) ELSE encs
        /\ last' = constructed("NewCustomSimpleTextEncoder", encoding, differences,
                               o, Len(encs))
        /\ made' = IF o.err = Nil THEN Append(made, last') ELSE made
  /\ UNCHANGED <<simple, got, tr>>

Next ==
  \/ \E name \in RegisteredNames, fnc \in DOMAIN Constructors :
        RegisterSimpleEncoding(name, fnc)
  \/ \E baseName \in BaseNames, differences \in DiffChoices :
        Len(encs) < MaxEncoders /\ NewSimpleTextEncoderCall(baseName, differences)
  \/ \E encoding \in CustomTables, differences \in DiffChoices :
        Len(encs) < MaxEncoders
          /\ NewCustomSimpleTextEncoderCall(encoding, differences)

\* Registration and construction.
Spec == Init /\ [][Next]_vars

(***************************************************************************)
(* The accessors, applied to an encoder as a construction leaves it.       *)
(***************************************************************************)
\* Every registry the registrations can build.
Registries ==
  UNION { [N -> DOMAIN Constructors] : N \in SUBSET RegisteredNames }

\* The states a first, successful NewSimpleTextEncoder(baseName, differences)
\* leaves under the registry reg.
BuiltSimple(reg, baseName, differences) ==
  { [heap |-> o.heap, enc |-> o.enc,
     last |-> constructed("NewSimpleTextEncoder", baseName, differences, o, 0)] :
      o \in {x \in NewSimpleTextEncoder(baseName, differences, reg, NoMaps) :
               x.err = Nil} }

\* The states a first, successful NewCustomSimpleTextEncoder leaves.
BuiltCustom(encoding, differences) ==
  { [heap |-> o.heap, enc |-> o.enc,
     last |-> constructed("NewCustomSimpleTextEncoder", encoding, differences,
                          o, 0)] :
      o \in {x \in NewCustomSimpleTextEncoder(encoding, differences, NoMaps) :
               x.err = Nil} }

InitAccess ==
  /\ simple \in Registries
  /\ \E s \in UNION ({ BuiltSimple(simple, n, d) :
                         n \in BaseNames, d \in DiffChoices }
                     \cup { BuiltCustom(t, d) :
                              t \in CustomTables, d \in DiffChoices }) :
        /\ heap = s.heap
        /\ encs = <<s.enc>>
        /\ made = <<s.last>>
        /\ last = s.last
  /\ got = NoCall
  /\ tr = NoSession

\* The codes and runes the accessors are called with.
AccessCodes == {1, 22, 23, 39, 65, 96, 128, 193, 256, 295}

AccessRunes == {0, 23, 39, 65, 96, 196, 8217, MissingCodeRune}

\* A call of encs[i].CharcodeToRune(code).
CharcodeToRuneCall(i, code) ==
  /\ got' = [op |-> "CharcodeToRune", enc |-> i, code |-> code,
             res |-> CharcodeToRune(encs[i], code, heap)]
  /\ UNCHANGED <<simple, heap, encs, made, last, tr>>

\* A call of encs[i].RuneToCharcode(r).
RuneToCharcodeCall(i, r) ==
  /\ got' = [op |-> "RuneToCharcode", enc |-> i, r |-> r,
             res |-> RuneToCharcode(encs[i], r)]
  /\ UNCHANGED <<simple, heap, encs, made, last, tr>>

\* A call of encs[i].Charcodes().
CharcodesCall(i) ==
  /\ \E codes \in Charcodes(encs[i], heap) :
        got' = [op |-> "Charcodes", enc |-> i, codes |-> codes]
  /\ UNCHANGED <<simple, heap, encs, made, last, tr>>

\* A call of encs[i].ToPdfObject().
ToPdfObjectCall(i) ==
  /\ got' = [op |-> "ToPdfObject", enc |-> i, res |-> ToPdfObject(encs[i])]
  /\ UNCHANGED <<simple, heap, encs, made, last, tr>>

NextAccess ==
  \/ \E i \in DOMAIN encs, code \in AccessCodes : CharcodeToRuneCall(i, code)
  \/ \E i \in DOMAIN encs, r \in AccessRunes : RuneToCharcodeCall(i, r)
  \/ \E i \in DOMAIN encs : CharcodesCall(i)
  \/ \E i \in DOMAIN encs : ToPdfObjectCall(i)

\* Accessor calls on a constructed encoder.
SpecAccess == InitAccess /\ [][NextAccess]_vars

(***************************************************************************)
(* Chunked use of the transforms: the caller feeds src piece by piece,     *)
(* keeps what a call did not consume and passes atEOF = true only with     *)
(* the last piece.                                                         *)
(***************************************************************************)
\* The bytes source buffers are made of: for the decoder, codes; for the
\* encoder, the bytes of "A", U+00C4 (C3 84) and U+2104 (E2 84 84), which
\* also combine into incomplete and invalid sequences.
DecodeBytes == {65, 128, 129}

EncodeBytes == {65, 195, 132, 226}

SourceBuffers(bytes) == UNION { [1 .. n -> bytes] : n \in 0 .. MaxSrcLen }

\* The encoders the sessions run on.
TransformEncoders ==
  BuiltSimple(EmptyMap, "MacRomanEncoding", EmptyMap)
    \cup BuiltSimple(EmptyMap, "MacExpertEncoding", EmptyMap)
    \cup BuiltCustom((128 :> "Adieresis") @@ (63 :> ".notdef"), EmptyMap)

InitTransform ==
  /\ simple = EmptyMap
  /\ \E s \in TransformEncoders :
        /\ heap = s.heap
        /\ encs = <<s.enc>>
        /\ made = <<s.last>>
        /\ last = s.last
  /\ got = NoCall
  /\ \E kind \in {"decode", "encode"} :
       \E src \in SourceBuffers(IF kind = "decode" THEN DecodeBytes
                                ELSE EncodeBytes) :
          tr = [kind |-> kind, src |-> src, fed |-> 0, pos |-> 0, out |-> <<>>,
                done |-> FALSE, call |-> NoCall]

\* The session after a call with destination size dstLen and flag atEOF on
\* the source fed up to fed returned res.
afterCall(fed, dstLen, atEOF, res) ==
  [tr EXCEPT !.fed = fed,
             !.pos = @ + res.nSrc,
             !.out = @ \o res.out,
             !.done = (atEOF /\ res.err = Nil) \/ res.err = Panic,
             !.call = [op |-> "Transform", dstLen |-> dstLen,
                       src |-> SubSeq(tr.src, tr.pos + 1, fed), atEOF |-> atEOF,
                       nDst |-> res.nDst, nSrc |-> res.nSrc, err |-> res.err,
                       out |-> res.out]]

\* A call of encs[1].NewDecoder().Transform(dst, src, atEOF) (simple.go:114-142).
DecoderTransformCall(fed, dstLen, atEOF) ==
  /\ tr.kind = "decode" /\ ~tr.done
  /\ fed >= tr.fed /\ fed <= Len(tr.src)
  /\ atEOF => fed = Len(tr.src)
  /\ tr' = afterCall(fed, dstLen, atEOF,
             simpleDecoderTransform(MapAt(heap, encs[1].decode), dstLen,
                                    SubSeq(tr.src, tr.pos + 1, fed), atEOF))
  /\ UNCHANGED <<simple, heap, encs, made, last, got>>

\* A call of encs[1].NewEncoder().Transform(dst, src, atEOF) (simple.go:148-181).
EncoderTransformCall(fed, dstLen, atEOF) ==
  /\ tr.kind = "encode" /\ ~tr.done
  /\ fed >= tr.fed /\ fed <= Len(tr.src)
  /\ atEOF => fed = Len(tr.src)
  /\ tr' = afterCall(fed, dstLen, atEOF,
             simpleEncoderTransform(encs[1].encode, dstLen,
                                    SubSeq(tr.src, tr.pos + 1, fed), atEOF))
  /\ UNCHANGED <<simple, heap, encs, made, last, got>>

\* A call of encs[1].Encode(raw) on the session's whole source.
EncodeCall ==
  /\ tr.kind = "encode" /\ tr.call = NoCall /\ got = NoCall
  /\ got' = [op |-> "Encode", enc |-> 1, raw |-> tr.src,
             data |-> Encode(encs[1], tr.src)]
  /\ UNCHANGED <<simple, heap, encs, made, last, tr>>

NextTransform ==
  \/ \E fed \in 0 .. MaxSrcLen, dstLen \in DstSizes, atEOF \in BOOLEAN :
        DecoderTransformCall(fed, dstLen, atEOF)
  \/ \E fed \in 0 .. MaxSrcLen, dstLen \in DstSizes, atEOF \in BOOLEAN :
        EncoderTransformCall(fed, dstLen, atEOF)
  \/ EncodeCall

\* Chunked decoding and encoding with a constructed encoder.
SpecTransform == InitTransform /\ [][NextTransform]_vars

(***************************************************************************)
(* Several encoders side by side: each is constructed, then any of them is *)
(* used, in any order.                                                     *)
(***************************************************************************)
\* The base names the encoders are built from: a predefined table and a
\* registered constructor.
PairNames == {"StandardEncoding", "WinAnsiEncoding"}

\* The codes, runes, code strings and UTF-8 texts the encoders are used on;
\* the text is U+0060 followed by U+00C4.
PairCodes == {65}

PairRunes == {96}

PairCodeStrings == { <<65, 128>> }

PairTexts == { <<96, 195, 132>> }

PairDstSizes == {4}

\* The registry once the program has initialised: WinAnsi is registered.
InitPair ==
  /\ simple = (baseWinAnsi :> "NewWinAnsi")
  /\ heap = NoMaps
  /\ encs = <<>>
  /\ made = <<>>
  /\ last = NoCall
  /\ got = NoCall
  /\ tr = NoSession

\* A call of encs[i].NewDecoder().Transform(dst, src, true) with len(dst) =
\* dstLen (simple.go:114-142).
DecoderCall(i, src, dstLen) ==
  /\ got' = [op |-> "NewDecoder.Transform", enc |-> i, src |-> src,
             dstLen |-> dstLen,
             res |-> simpleDecoderTransform(MapAt(heap, encs[i].decode), dstLen,
                                            src, TRUE)]
  /\ UNCHANGED <<simple, heap, encs, made, last, tr>>

\* A call of encs[i].NewEncoder().Transform(dst, src, true) with len(dst) =
\* dstLen (simple.go:148-181).
EncoderCall(i, src, dstLen) ==
  /\ got' = [op |-> "NewEncoder.Transform", enc |-> i, src |-> src,
             dstLen |-> dstLen,
             res |-> simpleEncoderTransform(encs[i].encode, dstLen, src, TRUE)]
  /\ UNCHANGED <<simple, heap, encs, made, last, tr>>

\* A call of encs[i].Encode(raw) (simple.go:108-111).
EncodeTextCall(i, raw) ==
  /\ got' = [op |-> "Encode", enc |-> i, raw |-> raw,
             data |-> Encode(encs[i], raw)]
  /\ UNCHANGED <<simple, heap, encs, made, last, tr>>

NextPair ==
  \/ \E baseName \in PairNames, differences \in DiffChoices :
        Len(encs) < MaxPairEncoders
          /\ NewSimpleTextEncoderCall(baseName, differences)
  \/ \E i \in DOMAIN encs, code \in PairCodes : CharcodeToRuneCall(i, code)
  \/ \E i \in DOMAIN encs, r \in PairRunes : RuneToCharcodeCall(i, r)
  \/ \E i \in DOMAIN encs : CharcodesCall(i)
  \/ \E i \in DOMAIN encs : ToPdfObjectCall(i)
  \/ \E i \in DOMAIN encs, src \in PairCodeStrings, dstLen \in PairDstSizes :
        DecoderCall(i, src, dstLen)
  \/ \E i \in DOMAIN encs, src \in PairTexts, dstLen \in PairDstSizes :
        EncoderCall(i, src, dstLen)
  \/ \E i \in DOMAIN encs, raw \in PairTexts : EncodeTextCall(i, raw)

\* Construction and use of several encoders.
SpecPair == InitPair /\ [][NextPair]_vars

(***************************************************************************)
(* Properties of the transforms, checked under SpecTransform.              *)
(***************************************************************************)
\* The decode map and the encode map of the session's encoder.
sessionDecode == MapAt(heap, encs[1].decode)

sessionEncode == encs[1].encode

\* The session's encoder was built by NewSimpleTextEncoder(baseName, nil).
sessionOf(baseName) ==
  /\ last.op = "NewSimpleTextEncoder"
  /\ last.arg = baseName
  /\ last.differences = EmptyMap

\* a is an initial part of b.
IsPrefix(a, b) == Len(a) <= Len(b) /\ a = SubSeq(b, 1, Len(a))

RECURSIVE textOf(_, _)
\* The UTF-8 text of the codes: each code's rune, the replacement rune for a
\* code the map does not have, in order.
textOf(m, codes) ==
  IF Len(codes) = 0 THEN <<>>
  ELSE utf8EncodeRune(IF codes[1] \in DOMAIN m THEN m[codes[1]]
                      ELSE MissingCodeRune)
         \o textOf(m, Tail(codes))

\* One call on the session's whole source, with atEOF = true and a
\* destination that has room for everything.
wholeBuffer ==
  IF tr.kind = "decode"
  THEN simpleDecoderTransform(sessionDecode, 4 * Len(tr.src), tr.src, TRUE)
  ELSE simpleEncoderTransform(sessionEncode, Len(tr.src), tr.src, TRUE)

\* C1: however the source is split over Transform calls and whatever the
\* destination sizes, what the calls have written so far is an initial part
\* of the output of one call on the whole buffer, and all of it once the
\* call with atEOF = true returns no signal; this for the decoder and for
\* the encoder.
C1_ChunkingInvariance ==
  tr.kind \in {"decode", "encode"} =>
     /\ wholeBuffer.err = Nil
     /\ IsPrefix(tr.out, wholeBuffer.out)
     /\ tr.done => tr.out = wholeBuffer.out /\ tr.pos = Len(tr.src)

\* An encode session that ended after its source arrived in pieces: the last
\* call wrote only a part of the output and consumed a part of the source.
C1_Witness ==
  /\ tr.kind = "encode" /\ tr.done
  /\ Len(tr.src) = 3
  /\ tr.call.nDst > 0 /\ tr.call.nDst < Len(tr.out)
  /\ tr.call.nSrc < Len(tr.src)

\* C2: a decoder call that returns the short-destination signal has consumed
\* exactly the bytes before the one whose rune does not fit, has written
\* exactly their UTF-8 text, and counts nothing for the byte that failed;
\* the signal is returned whenever the text of src exceeds the destination.
\* Under MacRomanEncoding, [0x80, 0x81] into 1 byte gives the signal with
\* nDst = 0 and nSrc = 0, and into 4 bytes gives U+00C4 U+00C5 and no signal.
C2_DecodeShortDst ==
  (tr.kind = "decode" /\ tr.call # NoCall) =>
     LET c == tr.call
         before == SubSeq(c.src, 1, c.nSrc)
     IN /\ c.err = ErrShortDst =>
             /\ c.nSrc < Len(c.src)
             /\ c.out = textOf(sessionDecode, before)
             /\ c.nDst = Len(c.out)
             /\ Len(textOf(sessionDecode, <<c.src[c.nSrc + 1]>>)) > c.dstLen - c.nDst
        /\ Len(textOf(sessionDecode, c.src)) > c.dstLen => c.err = ErrShortDst
        /\ (sessionOf("MacRomanEncoding") /\ c.src = <<128, 129>>) =>
             /\ c.dstLen = 1 => c.err = ErrShortDst /\ c.nDst = 0 /\ c.nSrc = 0
             /\ c.dstLen >= 4 =>
                  c.err = Nil /\ c.out = <<195, 132, 195, 133>>

\* A decoder call under MacRomanEncoding that converted 0x80 and then had
\* no room for 0x81.
C2_Witness ==
  /\ tr.kind = "decode" /\ tr.call # NoCall
  /\ sessionOf("MacRomanEncoding")
  /\ tr.call.src = <<128, 129>>
  /\ tr.call.err = ErrShortDst
  /\ tr.call.nSrc = 1 /\ tr.call.nDst = 2

\* C3: a decoder call returns no signal or the short-destination signal,
\* never anything else; and when the destination has room for the text of
\* src, with the replacement rune for every unmapped byte, the call returns
\* no signal, consumes all of src and writes exactly that text.
C3_DecodeNeverFails ==
  (tr.kind = "decode" /\ tr.call # NoCall) =>
     LET c == tr.call
         text == textOf(sessionDecode, c.src)
     IN /\ c.err \in {Nil, ErrShortDst}
        /\ Len(text) <= c.dstLen =>
             /\ c.err = Nil
             /\ c.nSrc = Len(c.src)
             /\ c.out = text
             /\ c.nDst = Len(text)

\* A decoder call without atEOF that converted a mapped and an unmapped byte.
C3_Witness ==
  /\ tr.kind = "decode" /\ tr.call # NoCall
  /\ ~tr.call.atEOF
  /\ tr.call.err = Nil /\ tr.call.nSrc = 2
  /\ \E i \in 1 .. 2 : tr.call.src[i] \notin DOMAIN sessionDecode
  /\ \E i \in 1 .. 2 : tr.call.src[i] \in DOMAIN sessionDecode

RECURSIVE runesIn(_)
\* The runes of a UTF-8 buffer converted to its end, each with its width in
\* bytes: a byte that begins no valid sequence is one replacement rune.
runesIn(src) ==
  IF Len(src) = 0 THEN <<>>
  ELSE LET d == utf8DecodeRune(src) IN
       <<[r |-> IF d.r = RuneError THEN MissingCodeRune ELSE d.r, n |-> d.n]>>
         \o runesIn(SubSeq(src, d.n + 1, Len(src)))

RECURSIVE widthOf(_, _)
\* The bytes the first k of the runes take.
widthOf(runes, k) == IF k = 0 THEN 0 ELSE widthOf(runes, k - 1) + runes[k].n

\* The byte for rune r: its code, else the code of MissingCodeRune, else 0.
codeFor(m, r) ==
  IF r \in DOMAIN m THEN m[r]
  ELSE IF MissingCodeRune \in DOMAIN m THEN m[MissingCodeRune]
  ELSE 0

\* An encoder call is recorded.
encoderCalled == tr.kind = "encode" /\ tr.call # NoCall

\* What a call left unconsumed of its source.
restOf(c) == SubSeq(c.src, c.nSrc + 1, Len(c.src))

\* The call consumed whole runes and wrote one byte for each: nDst runes of
\* its source, nSrc their width.
wholeRunes(c) ==
  /\ c.nDst <= Len(runesIn(c.src))
  /\ c.nSrc = widthOf(runesIn(c.src), c.nDst)
  /\ Len(c.out) = c.nDst

\* C4: an encoder call returns the short-source signal exactly when it
\* stopped at a source that does not begin with a full rune encoding while
\* atEOF is false; nSrc and nDst then count the runes converted before that
\* point and nothing of the incomplete bytes.  With atEOF true the signal is
\* never returned.
C4_EncodeShortSrc ==
  encoderCalled =>
     LET c == tr.call IN
     /\ (Len(restOf(c)) # 0 /\ ~utf8FullRune(restOf(c)) /\ ~c.atEOF)
           => c.err = ErrShortSrc
     /\ c.err = ErrShortSrc =>
           /\ Len(restOf(c)) # 0 /\ ~utf8FullRune(restOf(c)) /\ ~c.atEOF
           /\ wholeRunes(c)
     /\ c.atEOF => c.err # ErrShortSrc

\* An encoder call that converted a rune and stopped at an incomplete
\* sequence although the destination had room.
C4_Witness ==
  /\ encoderCalled
  /\ tr.call.err = ErrShortSrc
  /\ tr.call.nDst >= 1 /\ tr.call.nDst < tr.call.dstLen
  /\ tr.call.nSrc < Len(tr.call.src)

\* C5 as stated: whenever source is left and the destination is full, the
\* call reports short-destination.
C5_AsStated ==
  encoderCalled =>
     LET c == tr.call IN
     (Len(restOf(c)) # 0 /\ c.nDst = c.dstLen) =>
        c.err = ErrShortDst /\ wholeRunes(c)

\* C5 amended: whenever source is left that begins with a full rune encoding
\* (or atEOF is true) and the destination is full, the call reports
\* short-destination before consuming that rune: nSrc is the width of the
\* runes written and nDst their number, never more than len(dst).  Source
\* that begins with an incomplete sequence while atEOF is false is reported
\* as short-source instead.
C5_EncodeShortDst ==
  encoderCalled =>
     LET c == tr.call IN
     /\ c.nDst <= c.dstLen
     /\ (Len(restOf(c)) # 0 /\ c.nDst = c.dstLen
           /\ (utf8FullRune(restOf(c)) \/ c.atEOF))
           => c.err = ErrShortDst
     /\ c.err = ErrShortDst =>
           /\ Len(restOf(c)) # 0 /\ c.nDst = c.dstLen
           /\ wholeRunes(c)
     /\ (Len(restOf(c)) # 0 /\ c.nDst = c.dstLen
           /\ ~utf8FullRune(restOf(c)) /\ ~c.atEOF)
           => c.err = ErrShortSrc

\* An encoder call that filled its destination and stopped in front of a
\* rune of several bytes.
C5_Witness ==
  /\ encoderCalled
  /\ tr.call.err = ErrShortDst
  /\ tr.call.nDst >= 1
  /\ utf8DecodeRune(restOf(tr.call)).n >= 2

\* C6: an encoder call writes one byte for every rune it consumes and
\* advances by the rune's width; the byte is the rune's code, else the code
\* of MissingCodeRune, else zero, and bytes that are not valid UTF-8 count as
\* MissingCodeRune.  A call that returns no signal has consumed all of src
\* and written one byte per rune of it.  Encode(raw) returns these bytes.
C6_EncodeOutput ==
  /\ encoderCalled =>
        LET c == tr.call
            runes == runesIn(c.src)
        IN /\ c.err \in {Nil, ErrShortSrc, ErrShortDst}
           /\ wholeRunes(c)
           /\ \A i \in 1 .. c.nDst : c.out[i] = codeFor(sessionEncode, runes[i].r)
           /\ c.err = Nil => c.nSrc = Len(c.src) /\ c.nDst = Len(runes)
  /\ got.op = "Encode" =>
        /\ Len(got.data) = Len(runesIn(got.raw))
        /\ \A i \in 1 .. Len(got.data) :
              got.data[i] = codeFor(sessionEncode, runesIn(got.raw)[i].r)

\* An encoder call, on an encoder that has a code for MissingCodeRune, that
\* converted a mapped rune and a byte that is not valid UTF-8.
C6_Witness ==
  /\ encoderCalled
  /\ MissingCodeRune \in DOMAIN sessionEncode
  /\ tr.call.src = <<195, 132, 132>>
  /\ tr.call.err = Nil
  /\ tr.call.out = <<128, 63>>

(***************************************************************************)
(* Properties of the accessors, checked under SpecAccess.                  *)
(***************************************************************************)
\* C7: for every encoder the constructors return, with or without
\* differences, and every rune r: if RuneToCharcode(r) = (c, true) then
\* CharcodeToRune(c) = (r, true).
C7_RoundTrip ==
  /\ \A i \in DOMAIN encs :
        \A r \in DOMAIN encs[i].encode \cup AccessRunes :
           RuneToCharcode(encs[i], r).ok =>
              CharcodeToRune(encs[i], RuneToCharcode(encs[i], r).code, heap)
                = [r |-> r, ok |-> TRUE]
  /\ (got.op = "RuneToCharcode" /\ got.res.ok) =>
        CharcodeToRune(encs[got.enc], got.res.code, heap)
          = [r |-> got.r, ok |-> TRUE]

\* RuneToCharcode found a code for U+00C4 in MacRomanEncoding with
\* differences that give that rune to a second code.
C7_Witness ==
  /\ got.op = "RuneToCharcode" /\ got.res.ok /\ got.r = 196
  /\ last.op = "NewSimpleTextEncoder" /\ last.arg = "MacRomanEncoding"
  /\ last.differences # EmptyMap
  /\ CharcodeToRune(encs[1], 65, heap) = CharcodeToRune(encs[1], 128, heap)

\* C8: Charcodes() returns a strictly ascending sequence whose elements are
\* exactly the keys of the decode map, that is the codes for which
\* CharcodeToRune has ok = true, and every call returns that same sequence.
C8_CharcodesSorted ==
  got.op = "Charcodes" =>
     LET codes == got.codes
         enc == encs[got.enc]
         elems == {codes[i] : i \in DOMAIN codes}
     IN /\ \A i \in 1 .. Len(codes) - 1 : codes[i] < codes[i + 1]
        /\ elems = DOMAIN MapAt(heap, enc.decode)
        /\ \A c \in 0 .. MaxCharCode :
              c \in elems <=> CharcodeToRune(enc, c, heap).ok
        /\ \A again \in Charcodes(enc, heap) : again = codes

\* Charcodes() was called on StandardEncoding with differences that add
\* code 0x01, and returned it first.
C8_Witness ==
  /\ got.op = "Charcodes"
  /\ last.op = "NewSimpleTextEncoder" /\ last.arg = "StandardEncoding"
  /\ last.arg \notin DOMAIN simple
  /\ last.differences # EmptyMap
  /\ Len(got.codes) = Cardinality(DOMAIN simpleEncodings["StandardEncoding"]) + 1
  /\ got.codes[1] = 1

\* The encoder was built from the predefined table of its name, without
\* differences.
fromTable ==
  /\ last.op = "NewSimpleTextEncoder"
  /\ last.arg \notin DOMAIN simple
  /\ last.differences = EmptyMap

\* C9 as stated: for an encoder built from a predefined table without
\* differences, CharcodeToRune(c) is (table[c], true) for a key c of the
\* table and (0, false) for every other c, codes above 255 included;
\* MacRomanEncoding 0x80 gives U+00C4, StandardEncoding 0x27 gives U+2019
\* and StandardEncoding 0x01 gives ok = false.
C9_AsStated ==
  (got.op = "CharcodeToRune" /\ fromTable) =>
     LET table == simpleEncodings[last.arg] IN
     /\ got.res = IF got.code \in DOMAIN table
                  THEN [r |-> table[got.code], ok |-> TRUE]
                  ELSE [r |-> 0, ok |-> FALSE]
     /\ (last.arg = "MacRomanEncoding" /\ got.code = 128)
           => got.res = [r |-> 196, ok |-> TRUE]
     /\ (last.arg = "StandardEncoding" /\ got.code = 39)
           => got.res = [r |-> 8217, ok |-> TRUE]
     /\ (last.arg = "StandardEncoding" /\ got.code = 1) => ~got.res.ok

\* What the code does: C9 holds for every code that fits a byte, and ok is
\* false for every code above 255, for which the rune returned is
\* MissingCodeRune.
C9_ByteCodes ==
  fromTable =>
     LET table == simpleEncodings[last.arg] IN
     \A c \in 0 .. MaxCharCode :
        CharcodeToRune(encs[1], c, heap)
          = IF c \in DOMAIN table THEN [r |-> table[c], ok |-> TRUE]
            ELSE IF c <= 255 THEN [r |-> 0, ok |-> FALSE]
            ELSE [r |-> MissingCodeRune, ok |-> FALSE]

(***************************************************************************)
(* Properties of construction, checked under Spec.                         *)
(***************************************************************************)
\* The decode map expected of table overlaid with differences: each code
\* whose glyph is known gets the glyph's rune, every other code keeps its
\* entry.
overlaid(table, differences) ==
  LET res == {c \in DOMAIN differences : differences[c] \in DOMAIN GlyphList}
  IN [c \in DOMAIN table \cup res |->
        IF c \in res THEN GlyphList[differences[c]] ELSE table[c]]

\* C10: NewSimpleTextEncoder(baseName, differences) starts from the encoder
\* of the constructor registered under baseName when there is one, even if
\* a predefined table has that name; otherwise from the predefined table of
\* that name; and for a name that is neither it returns the
\* unsupported-encoding error and no encoder.  In every other case it
\* returns an encoder and no error.
C10_Resolution ==
  last.op = "NewSimpleTextEncoder" =>
     IF last.arg \in DOMAIN simple
     THEN /\ last.err = Nil /\ last.enc # 0
          /\ encs[last.enc].baseName = Constructors[simple[last.arg]].baseName
          /\ MapAt(heap, encs[last.enc].decode)
               = overlaid(Constructors[simple[last.arg]].table, last.differences)
     ELSE IF last.arg \in DOMAIN simpleEncodings
     THEN /\ last.err = Nil /\ last.enc # 0
          /\ encs[last.enc].baseName = last.arg
          /\ MapAt(heap, encs[last.enc].decode)
               = overlaid(simpleEncodings[last.arg], last.differences)
     ELSE /\ last.err = "unsupported font encoding"
          /\ last.enc = 0

\* NewSimpleTextEncoder("StandardEncoding", nil) returned the encoder of a
\* constructor registered under that name, not one of the predefined table.
C10_Witness ==
  /\ last.op = "NewSimpleTextEncoder" /\ last.arg = "StandardEncoding"
  /\ "StandardEncoding" \in DOMAIN simple
  /\ last.err = Nil
  /\ MapAt(heap, encs[last.enc].decode) # simpleEncodings["StandardEncoding"]

\* C11: NewCustomSimpleTextEncoder(table, differences) returns the
\* empty-encoding error and no encoder exactly when table has no entries;
\* for a table with entries it returns an encoder and no error, and, before
\* differences, CharcodeToRune gives ok = false for the code of every entry
\* whose glyph name is unknown and the glyph's rune with ok = true for the
\* code of every entry whose glyph name is known.
C11_AsStated ==
  last.op = "NewCustomSimpleTextEncoder" =>
     /\ (last.err = "empty custom encoding" /\ last.enc = 0)
           <=> DOMAIN last.arg = {}
     /\ DOMAIN last.arg # {} => last.err = Nil /\ last.enc \in DOMAIN encs
     /\ (last.err = Nil /\ last.differences = EmptyMap) =>
           \A c \in DOMAIN last.arg :
              LET g == GlyphToRune(last.arg[c])
                  res == CharcodeToRune(encs[last.enc], c, heap)
              IN IF g.ok THEN res = [r |-> g.r, ok |-> TRUE] ELSE ~res.ok

\* What C11 says of the codes that fit a byte and share their low byte with
\* no other entry: these the construction treats as stated.
C11_ByteCodes ==
  last.op = "NewCustomSimpleTextEncoder" =>
     /\ (last.err = "empty custom encoding" /\ last.enc = 0)
           <=> DOMAIN last.arg = {}
     /\ DOMAIN last.arg # {} => last.err = Nil /\ last.enc \in DOMAIN encs
     /\ (last.err = Nil /\ last.differences = EmptyMap) =>
           \A c \in DOMAIN last.arg :
              LET g == GlyphToRune(last.arg[c])
                  res == CharcodeToRune(encs[last.enc], c, heap)
              IN (c <= 255 /\ \A d \in DOMAIN last.arg : d % 256 = c => d = c)
                   => IF g.ok THEN res = [r |-> g.r, ok |-> TRUE] ELSE ~res.ok

\* C12: a RegisterSimpleEncoding call for a name that is registered panics
\* and leaves the registry as it was; a call for a new name adds that entry
\* and no other; no step of the program removes or replaces an entry, so
\* the constructor a name was first registered with is the one
\* NewSimpleTextEncoder finds under it.
C12_Registry ==
  [][ /\ \A n \in DOMAIN simple : n \in DOMAIN simple' /\ simple'[n] = simple[n]
      /\ IF last'.op = "RegisterSimpleEncoding"
         THEN IF last'.name \in DOMAIN simple
              THEN last'.err = Panic /\ simple' = simple
              ELSE /\ last'.err = Nil
                   /\ DOMAIN simple' = DOMAIN simple \cup {last'.name}
                   /\ simple'[last'.name] = last'.fnc
         ELSE /\ simple' = simple
              /\ (last'.op = "NewSimpleTextEncoder"
                    /\ last'.arg \in DOMAIN simple) =>
                   /\ last'.err = Nil
                   /\ encs'[last'.enc].baseName
                        = Constructors[simple[last'.arg]].baseName ]_vars

\* Both names are registered and a further registration of one of them,
\* with the other constructor, has panicked.
C12_Witness ==
  /\ last.op = "RegisterSimpleEncoding" /\ last.err = Panic
  /\ DOMAIN simple = RegisteredNames
  /\ simple[last.name] # last.fnc

\* C15: in an encoder built from a predefined table (MacExpertEncoding,
\* MacRomanEncoding, PdfDocEncoding, StandardEncoding), no two codes decode
\* to the same rune, so that RuneToCharcode gives back the code of every
\* rune CharcodeToRune returns and the encode map has as many entries as the
\* decode map.
C15_AsStated ==
  \A i \in DOMAIN encs :
     ( /\ made[i].op = "NewSimpleTextEncoder"
       /\ made[i].arg \in DOMAIN simpleEncodings \ DOMAIN simple
       /\ made[i].differences = EmptyMap ) =>
        LET decode == MapAt(heap, encs[i].decode) IN
        /\ Cardinality({decode[c] : c \in DOMAIN decode})
             = Cardinality(DOMAIN decode)
        /\ \A c \in DOMAIN decode :
              LET res == CharcodeToRune(encs[i], c, heap) IN
              res.ok /\ RuneToCharcode(encs[i], res.r) = [code |-> c, ok |-> TRUE]
        /\ Cardinality(DOMAIN encs[i].encode) = Cardinality(DOMAIN decode)

\* What C15 says holds of the two Mac tables.
C15_MacTables ==
  \A i \in DOMAIN encs :
     ( /\ made[i].op = "NewSimpleTextEncoder"
       /\ made[i].arg \in {"MacExpertEncoding", "MacRomanEncoding"}
       /\ simple = EmptyMap /\ made[i].differences = EmptyMap ) =>
        LET decode == MapAt(heap, encs[i].decode) IN
        /\ Cardinality({decode[c] : c \in DOMAIN decode})
             = Cardinality(DOMAIN decode)
        /\ \A c \in DOMAIN decode :
              LET res == CharcodeToRune(encs[i], c, heap) IN
              res.ok /\ RuneToCharcode(encs[i], res.r) = [code |-> c, ok |-> TRUE]
        /\ Cardinality(DOMAIN encs[i].encode) = Cardinality(DOMAIN decode)

\* C18: in an encoder of NewCustomSimpleTextEncoder(table, nil) every entry
\* (c, g) of table whose glyph is known is stored under c mod 256: that code
\* is present, with the rune of an entry that has this low byte.  Every code
\* Charcodes() returns is in 0..255 and there are no more codes than table
\* entries; a code b in 0..255 is present exactly when some entry with a
\* known glyph has c mod 256 = b, and its rune is the rune of such an entry.
C18_CodeNarrowing ==
  ( made[1].op = "NewCustomSimpleTextEncoder" /\ made[1].differences = EmptyMap ) =>
     LET table == made[1].arg
         known == {c \in DOMAIN table : GlyphToRune(table[c]).ok}
         under(b) == {GlyphToRune(table[c]).r : c \in {d \in known : d % 256 = b}}
     IN /\ \A c \in known :
              LET res == CharcodeToRune(encs[1], c % 256, heap) IN
              res.ok /\ res.r \in under(c % 256)
        /\ \A codes \in Charcodes(encs[1], heap) :
              /\ \A k \in DOMAIN codes : codes[k] \in 0 .. 255
              /\ Len(codes) <= Cardinality(DOMAIN table)
        /\ \A b \in 0 .. 255 :
              LET res == CharcodeToRune(encs[1], b, heap) IN
              IF under(b) = {} THEN ~res.ok ELSE res.ok /\ res.r \in under(b)
        /\ got.op = "Charcodes" =>
              /\ \A k \in DOMAIN got.codes : got.codes[k] \in 0 .. 255
              /\ Len(got.codes) <= Cardinality(DOMAIN table)

\* A table with the entries (0x41, A), (0x141, Adieresis) and one unknown
\* glyph gave an encoder whose only code is 0x41, and the entry of the wider
\* code is the one that stayed.
C18_Witness ==
  /\ made[1].op = "NewCustomSimpleTextEncoder" /\ made[1].differences = EmptyMap
  /\ 321 \in DOMAIN made[1].arg
  /\ got.op = "Charcodes" /\ got.codes = <<65>>
  /\ CharcodeToRune(encs[1], 65, heap) = [r |-> 196, ok |-> TRUE]

(***************************************************************************)
(* Properties of serialisation, checked under SpecAccess.                  *)
(***************************************************************************)
\* C14: ToPdfObject is decided by the base name alone: for MacRomanEncoding,
\* MacExpertEncoding and the WinAnsi base name it returns the name object of
\* the base name; for every other base name an indirect dictionary with
\* Type = Encoding, BaseEncoding = the base name and a Differences array
\* with no item, whatever differences the encoder was built with.
C14_ToPdfObject ==
  got.op = "ToPdfObject" =>
     LET baseName == encs[got.enc].baseName IN
     IF baseName \in {"MacRomanEncoding", "MacExpertEncoding", "WinAnsiEncoding"}
     THEN got.res = [kind |-> "name", value |-> baseName]
     ELSE /\ got.res.kind = "indirect" /\ got.res.obj.kind = "dict"
          /\ DOMAIN got.res.obj.entries = {"Type", "BaseEncoding", "Differences"}
          /\ got.res.obj.entries["Type"] = [kind |-> "name", value |-> "Encoding"]
          /\ got.res.obj.entries["BaseEncoding"]
               = [kind |-> "name", value |-> baseName]
          /\ got.res.obj.entries["Differences"] = [kind |-> "array", elems |-> <<>>]

\* A StandardEncoding encoder built with differences, one of which took
\* effect, was written as a dictionary whose Differences array is empty;
\* the difference map itself would give an array with items.
C14_Witness ==
  /\ got.op = "ToPdfObject" /\ got.res.kind = "indirect"
  /\ made[got.enc].op = "NewSimpleTextEncoder"
  /\ made[got.enc].arg = "StandardEncoding" /\ simple = EmptyMap
  /\ CharcodeToRune(encs[got.enc], 65, heap) = [r |-> 196, ok |-> TRUE]
  /\ got.res.obj.entries["Differences"].elems = <<>>
  /\ Len(toFontDifferences(made[got.enc].differences).elems) = 6

(***************************************************************************)
(* Properties of encoders side by side, checked under SpecPair.            *)
(***************************************************************************)
\* C13: no step of the program - an accessor, Encode, a Transform of the
\* decoder or the encoder, ToPdfObject, or the construction of another
\* encoder, with or without differences, on the same base or another -
\* changes the decode map or the encode map of an encoder that exists:
\* CharcodeToRune and RuneToCharcode give after the step what they gave
\* before it, for every code and rune.
C13_Immutable ==
  [][ \A i \in DOMAIN encs :
        /\ i \in DOMAIN encs' /\ encs'[i] = encs[i]
        /\ MapAt(heap', encs'[i].decode) = MapAt(heap, encs[i].decode)
        /\ \A c \in AccessCodes :
              CharcodeToRune(encs'[i], c, heap') = CharcodeToRune(encs[i], c, heap)
        /\ \A r \in AccessRunes :
              RuneToCharcode(encs'[i], r) = RuneToCharcode(encs[i], r) ]_vars

\* An encoder of NewSimpleTextEncoder(name, nil) for a predefined name,
\* then one of NewSimpleTextEncoder(name, differences) in which code 0x41 is
\* overridden, then a CharcodeToRune(0x41) on the first that still gives
\* the table's rune.
C13_Witness ==
  /\ Len(encs) = 2
  /\ made[1].op = "NewSimpleTextEncoder" /\ made[2].op = "NewSimpleTextEncoder"
  /\ made[1].arg = made[2].arg /\ made[1].arg \in DOMAIN simpleEncodings
  /\ made[1].differences = EmptyMap /\ made[2].differences # EmptyMap
  /\ CharcodeToRune(encs[2], 65, heap) = [r |-> 196, ok |-> TRUE]
  /\ got = [op |-> "CharcodeToRune", enc |-> 1, code |-> 65,
            res |-> [r |-> 65, ok |-> TRUE]]

\* C16: two encoders built by the same constructor from the same base name
\* (or custom table) and the same differences give the same RuneToCharcode
\* and CharcodeToRune results, and their encoder Transform writes the same
\* bytes for the same source.
C16_AsStated ==
  \A i, j \in DOMAIN encs :
     ( /\ made[i].op = made[j].op
       /\ made[i].arg = made[j].arg
       /\ made[i].differences = made[j].differences ) =>
        /\ \A r \in AccessRunes :
              RuneToCharcode(encs[i], r) = RuneToCharcode(encs[j], r)
        /\ \A c \in AccessCodes :
              CharcodeToRune(encs[i], c, heap) = CharcodeToRune(encs[j], c, heap)
        /\ \A src \in PairTexts :
              simpleEncoderTransform(encs[i].encode, Len(src), src, TRUE).out
                = simpleEncoderTransform(encs[j].encode, Len(src), src, TRUE).out

\* What C16 says of the decode direction holds: encoders built from the
\* same inputs decode every code alike.
C16_DecodeAlike ==
  \A i, j \in DOMAIN encs :
     ( /\ made[i].op = made[j].op
       /\ made[i].op = "NewSimpleTextEncoder"
       /\ made[i].arg = made[j].arg
       /\ made[i].differences = made[j].differences ) =>
        \A c \in 0 .. 256 :
           CharcodeToRune(encs[i], c, heap) = CharcodeToRune(encs[j], c, heap)

\* C17: two encoders of NewSimpleTextEncoder(name, nil) for the same
\* predefined name have decode maps that are distinct objects, neither of
\* them the map simpleEncodings[name], so that a write to the table or to
\* the map of one of them leaves the CharcodeToRune results of the other
\* as they were.
C17_AsStated ==
  \A i, j \in DOMAIN encs :
     ( /\ i # j
       /\ made[i].op = "NewSimpleTextEncoder" /\ made[j].op = "NewSimpleTextEncoder"
       /\ made[i].arg = made[j].arg
       /\ made[i].arg \in DOMAIN simpleEncodings \ DOMAIN simple
       /\ made[i].differences = EmptyMap /\ made[j].differences = EmptyMap ) =>
        /\ encs[i].decode # encs[j].decode
        /\ encs[i].decode # TableRef(made[i].arg)
        /\ \A ref \in {encs[i].decode, TableRef(made[i].arg)}, c \in AccessCodes :
              CharcodeToRune(encs[j], c, store(heap, ref, EmptyMap))
                = CharcodeToRune(encs[j], c, heap)

====
